---- MODULE Spec2Model ----
(***************************************************************************)
(* Verification model of the heidi-engine C++ core:                        *)
(*   - Core (core/core.cpp): the pipeline state machine, its governor wait *)
(*     loop and its journal / status side effects;                         *)
(*   - JournalWriter (core/journal_writer.cpp): the hash-chained journal,  *)
(*     its redaction and schema lock, alone and under two writing threads; *)
(*   - StatusWriter (core/status_writer.cpp) under two writing threads;    *)
(*   - ResourceGovernor::decide (heidi-kernel, interface only).            *)
(*   - Subprocess::execute (core/subprocess.cpp): fork, read loop and the  *)
(*     timeout escalation;                                                 *)
(*   - SignatureUtil and Manifest::to_canonical_json (core/manifest.cpp);  *)
(*   - AsyncCollector::generate_batch (core/async_collector.cpp);          *)
(*   - the providers and their network switch (core/provider.cpp) with the *)
(*     provider.generate method of the daemon (daemon/daemon.cpp);         *)
(*   - one connection of the RPC server (daemon/rpc_server.cpp);           *)
(*   - ArenaAllocator (heidi_cpp.cpp).                                     *)
(***************************************************************************)
EXTENDS Integers, Sequences, FiniteSets, TLC

(***************************************************************************)
(* Bounds of the model.                                                    *)
(***************************************************************************)
MaxRounds == 2          \* ROUNDS values explored: 0..MaxRounds
MaxStops == 2           \* shutdown() calls explored per engine
MaxHolds == 3           \* HOLD_QUEUE answers explored per stage invocation
MaxWrites == 3          \* write() calls explored on one JournalWriter

(***************************************************************************)
(* Program constants.                                                      *)
(***************************************************************************)
DefaultRounds == 3              \* Config::rounds
DefaultMaxWallTimeMinutes == 60 \* Config::max_wall_time_minutes
DefaultMaxRunningJobs == 10     \* GovernorPolicy::max_running_jobs

Modes == {"collect", "full", "real"}
States == {"IDLE", "COLLECTING", "VALIDATING", "TESTING", "FINALIZING",
           "EVALUATING", "ERROR"}

VARIABLES
    inited,            \* Core::init has run: journal_, status_, sampler_, governor_ are set
    config_,           \* Core::config_ (the fields the engine reads)
    policy_,           \* the GovernorPolicy handed to the governor by Core::init
    current_state_,    \* Core::current_state_
    current_round_,    \* Core::current_round_
    mode_,             \* Core::mode_ ("" until the first successful start)
    stop_requested_,   \* Core::stop_requested_
    journal_,          \* the lines appended to events.jsonl since the operation in progress
                       \* (or, between operations, the last one) began, oldest first; Core
                       \* never reads the file back, so the older lines are left out
    status_,           \* the document last persisted to state.json
    pc,                \* where the tick thread is: "idle", "govern" (wait loop), "exec" (worker running)
    wait_ms,           \* run_script's wait_time_sec, in milliseconds
    holds,             \* HOLD_QUEUE answers received by the tick in progress
    op,                \* the operation in progress or, between operations, the last one
    branch,            \* tick: current_state_ as read at its start (the branch it takes)
    workers,           \* tick: number of worker processes it has launched
    outcome,           \* tick: how run_script ended ("none": not yet): "mocked", "stopped",
                       \* "over_budget", or how Subprocess::execute ended
    req,               \* start: its argument and what the gatekeeper found ("none" otherwise)
    lastDecision,      \* tick: most recent answer of governor_->decide ("none": not asked)
    tick_clean,        \* tick: no other caller has touched the engine since it began
    stops,             \* number of shutdown() calls so far
    run,               \* the run since the last start("collect"), while no other caller
                       \* has disturbed it and every stage has succeeded: the states it
                       \* went through, its stage executions and two event counts
    manifests,         \* the run manifests built and sealed so far (struct Manifest of
                       \* core/manifest.h); no operation of Core builds one
    jw,                \* a stand-alone JournalWriter: [file, last_hash_, seed]
    gov,               \* a stand-alone ResourceGovernor call: [policy, in, out]
    sp,                \* a stand-alone Subprocess::execute call and its child process
    sn,                \* a message on its way into a journal: [atoms, via, w]
    vl,                \* a stand-alone validate_strict call: [shape, out]
    cw,                \* a JournalWriter shared by two threads inside write
    sw,                \* a StatusWriter shared by two threads inside write
    sg,                \* a SignatureUtil sign call followed by a verify call
    mf,                \* a Manifest and its canonical serialization
    ac,                \* an AsyncCollector::generate_batch call and its requests
    pv,                \* the providers of a process and the calls made on them
    rp,                \* one connection of the RPC server
    ar                 \* an ArenaAllocator

engineVars == <<current_state_, current_round_, mode_, stop_requested_,
                journal_, status_>>
setupVars == <<inited, config_, policy_>>
tickVars == <<pc, wait_ms, holds, op, branch, workers, outcome, lastDecision,
              tick_clean, req>>
coreVars == <<setupVars, engineVars, tickVars, stops, run, manifests>>
libVars == <<sg, mf, ac, pv, rp, ar>>
auxVars == <<sn, vl, cw, sw, libVars>>
vars == <<coreVars, jw, gov, sp, auxVars>>

(***************************************************************************)
(* ResourceGovernor (heidi-kernel/resource_governor.h is not part of the   *)
(* sources; decide is modelled from its documented contract and from       *)
(* GovernorTest.HighWatermarks).                                           *)
(***************************************************************************)
GovernorResult(decision, reason, retry) ==
    [decision |-> decision, reason |-> reason, retry_after_ms |-> retry]

\* decide with the memory watermark tested before the CPU watermark.
decide_mem_first(policy, cpu_pct, mem_pct, running_jobs, queued_jobs) ==
    IF running_jobs > policy.max_running_jobs
    THEN IF queued_jobs >= policy.max_queue_depth
         THEN GovernorResult("REJECT_QUEUE_FULL", "RUNNING_LIMIT", 0)
         ELSE GovernorResult("HOLD_QUEUE", "RUNNING_LIMIT", policy.cooldown_ms)
    ELSE IF mem_pct > policy.mem_high_watermark_pct
    THEN GovernorResult("HOLD_QUEUE", "MEM_HIGH", policy.cooldown_ms)
    ELSE IF cpu_pct > policy.cpu_high_watermark_pct
    THEN GovernorResult("HOLD_QUEUE", "CPU_HIGH", policy.cooldown_ms)
    ELSE GovernorResult("START_NOW", "NONE", 0)

decide(policy, cpu_pct, mem_pct, running_jobs, queued_jobs) ==
    IF running_jobs > policy.max_running_jobs
    THEN IF queued_jobs >= policy.max_queue_depth
         THEN GovernorResult("REJECT_QUEUE_FULL", "RUNNING_LIMIT", 0)
         ELSE GovernorResult("HOLD_QUEUE", "RUNNING_LIMIT", policy.cooldown_ms)
    ELSE IF cpu_pct > policy.cpu_high_watermark_pct
    THEN GovernorResult("HOLD_QUEUE", "CPU_HIGH", policy.cooldown_ms)
    ELSE IF mem_pct > policy.mem_high_watermark_pct
    THEN GovernorResult("HOLD_QUEUE", "MEM_HIGH", policy.cooldown_ms)
    ELSE GovernorResult("START_NOW", "NONE", 0)

(***************************************************************************)
(* Core: configuration and the engine record the helpers work on.          *)
(***************************************************************************)
DefaultConfig ==
    [rounds |-> DefaultRounds, run_unit_tests |-> FALSE,
     mock_subprocesses |-> FALSE,
     max_wall_time_minutes |-> DefaultMaxWallTimeMinutes,
     max_cpu_pct |-> 90, max_mem_pct |-> 90]

\* Config::load_from_env: the values the environment can select.
EnvConfigs ==
    [rounds : 0..MaxRounds, run_unit_tests : BOOLEAN,
     mock_subprocesses : BOOLEAN, max_wall_time_minutes : {0, 1},
     max_cpu_pct : {90}, max_mem_pct : {90}]

Cooldowns == {0, 60000}

\* The (configuration, cooldown) pairs explored; the wall-time budget and the
\* cooldown are read by the wait loop only, which a mocked engine never enters.
InitChoices ==
    {x \in EnvConfigs \X Cooldowns :
        /\ x[1].mock_subprocesses =>
              (x[1].max_wall_time_minutes = 1 /\ x[2] = 60000)
        /\ x[2] = 0 => x[1].max_wall_time_minutes = 1}

\* The policy Core::init builds: the two watermarks from the configuration,
\* the other fields at the GovernorPolicy defaults.
CorePolicy(cfg, cooldown) ==
    [cpu_high_watermark_pct |-> cfg.max_cpu_pct,
     mem_high_watermark_pct |-> cfg.max_mem_pct,
     max_running_jobs |-> DefaultMaxRunningJobs,
     max_queue_depth |-> 1,
     cooldown_ms |-> cooldown]

NoPolicy == CorePolicy(DefaultConfig, 0)
NoStatus == [status |-> "none", current_round |-> 0, current_stage |-> "none"]

\* The engine's fields as one record, so that the helpers compose.
Cur ==
    [inited |-> inited, state |-> current_state_, round |-> current_round_,
     mode |-> mode_, stop |-> stop_requested_, journal |-> journal_,
     status |-> status_]

Commit(c) ==
    /\ current_state_' = c.state
    /\ current_round_' = c.round
    /\ mode_' = c.mode
    /\ stop_requested_' = c.stop
    /\ journal_' = c.journal
    /\ status_' = c.status

\* Core::emit_event: nothing is journaled while journal_ is null.
emit_event(c, event_type, stage, level) ==
    IF ~c.inited THEN c
    ELSE [c EXCEPT !.journal = Append(@, [event_type |-> event_type,
                                          stage |-> stage, level |-> level,
                                          round |-> c.round])]

\* set_state persisting nothing on the way to ERROR.
set_state_silent_on_error(c, new_state, stage) ==
    LET c1 == [c EXCEPT !.state = new_state] IN
    IF ~c.inited \/ new_state = "ERROR" THEN c1
    ELSE [c1 EXCEPT !.status =
            [status |-> IF new_state = "IDLE" THEN "completed" ELSE "running",
             current_round |-> c.round, current_stage |-> stage]]

\* Core::set_state: the status document is persisted only when status_ is set.
set_state(c, new_state, stage) ==
    LET c1 == [c EXCEPT !.state = new_state] IN
    IF ~c.inited THEN c1
    ELSE [c1 EXCEPT !.status =
            [status |-> IF new_state = "IDLE" THEN "completed" ELSE "running",
             current_round |-> c.round, current_stage |-> stage]]

(***************************************************************************)
(* Core::start.  doctor_status is the exit status of the integrity check, *)
(* key / keystore tell whether HEIDI_SIGNING_KEY / HEIDI_KEYSTORE_PATH are *)
(* set.                                                                    *)
(***************************************************************************)
\* start past its first line: the gatekeeper and the transition to COLLECTING.
start_gated(c, mode, doctor_status, key, keystore) ==
    IF mode = "real" /\ ~c.inited
    THEN set_state(emit_event(c, "gatekeeper_failed", "init", "critical"),
                   "ERROR", "error")
    ELSE IF mode = "real" /\ doctor_status # 0
    THEN set_state(emit_event(c, "gatekeeper_failed", "init", "critical"),
                   "ERROR", "error")
    ELSE IF mode = "real" /\ ~(key /\ keystore)
    THEN set_state(emit_event(emit_event(c, "gatekeeper_passed", "init", "info"),
                              "gatekeeper_failed", "init", "critical"),
                   "ERROR", "error")
    ELSE LET c0 == IF mode = "real"
                   THEN emit_event(c, "gatekeeper_passed", "init", "info")
                   ELSE c
             c1 == [c0 EXCEPT !.mode = mode, !.round = 1, !.stop = FALSE]
         IN set_state(emit_event(c1, "pipeline_start", "pipeline", "info"),
                      "COLLECTING", "initializing")

\* start without the test of the stop flag on its first line.
start_ignoring_stop(c, mode, doctor_status, key, keystore) ==
    start_gated(c, mode, doctor_status, key, keystore)

start(c, mode, doctor_status, key, keystore) ==
    IF c.stop THEN c
    ELSE start_gated(c, mode, doctor_status, key, keystore)

(***************************************************************************)
(* Core::tick and Core::run_script.  A tick blocks in two places, the      *)
(* governor wait loop and the worker subprocess; the model splits it       *)
(* there, so that calls from other threads (Daemon::stop, the train_now    *)
(* route) can fall in between.                                             *)
(***************************************************************************)
StageOf(b) ==
    CASE b = "COLLECTING" -> "generate"
      [] b = "VALIDATING" -> "validate"
      [] b = "TESTING" -> "test"
      [] b = "FINALIZING" -> "train"
      [] OTHER -> "eval"

\* tick_is_noop with the ERROR state left out of the steady states.
tick_is_noop_idle_only(c) == c.state = "IDLE" \/ c.stop

\* tick, line 218: the states in which tick only returns the status.
tick_is_noop(c) == c.state \in {"IDLE", "ERROR"} \/ c.stop

\* The events tick emits before it calls run_script.
tick_pre(c, b) ==
    IF b = "COLLECTING"
    THEN emit_event(emit_event(c, "round_start", "round", "info"),
                    "stage_start", "generate", "info")
    ELSE emit_event(c, "stage_start", StageOf(b), "info")

\* after_validate with collect mode sent on to training like full mode.
after_validate_always_trains(c, cfg) ==
    LET c1 == emit_event(c, "stage_end", "validate", "info") IN
    IF cfg.run_unit_tests THEN set_state(c1, "TESTING", "test")
    ELSE set_state(c1, "FINALIZING", "train")

\* after_generate with the validation stage skipped.
after_generate_skips(c) ==
    set_state(emit_event(c, "stage_end", "generate", "info"), "TESTING", "test")

\* tick, COLLECTING branch, after run_script succeeded (lines 228-229).
after_generate(c) ==
    set_state(emit_event(c, "stage_end", "generate", "info"),
              "VALIDATING", "validate")

\* tick, VALIDATING branch, after run_script succeeded (lines 236-243).
after_validate(c, cfg) ==
    LET c1 == emit_event(c, "stage_end", "validate", "info") IN
    IF cfg.run_unit_tests THEN set_state(c1, "TESTING", "test")
    ELSE IF c1.mode = "full" THEN set_state(c1, "FINALIZING", "train")
    ELSE set_state(c1, "IDLE", "complete")

\* tick, TESTING branch, after run_script succeeded (lines 250-255).
after_test(c) ==
    LET c1 == emit_event(c, "stage_end", "test", "info") IN
    IF c1.mode = "full" THEN set_state(c1, "FINALIZING", "train")
    ELSE set_state(c1, "IDLE", "complete")

\* tick, FINALIZING branch, after run_script succeeded (lines 262-263).
after_train(c) ==
    set_state(emit_event(c, "stage_end", "train", "info"), "EVALUATING", "eval")

\* after_eval with the round incremented whatever the round limit.
after_eval_unbounded(c, ok, cfg) ==
    set_state([emit_event(c, "stage_end", "eval", "info") EXCEPT !.round = @ + 1],
              "COLLECTING", "generate")

\* after_eval made to stop at a failed eval stage, as the other stages do.
after_eval_aborts(c, ok, cfg) ==
    IF ~ok THEN c
    ELSE LET c1 == emit_event(c, "stage_end", "eval", "info") IN
         IF c1.round < cfg.rounds
         THEN set_state([c1 EXCEPT !.round = @ + 1], "COLLECTING", "generate")
         ELSE set_state(emit_event(c1, "pipeline_complete", "pipeline", "info"),
                        "IDLE", "complete")

\* tick, EVALUATING branch, after run_script returned ok, which the code
\* does not look at (lines 268-278).
after_eval(c, ok, cfg) ==
    LET c1 == emit_event(c, "stage_end", "eval", "info") IN
    IF c1.round < cfg.rounds
    THEN set_state([c1 EXCEPT !.round = @ + 1], "COLLECTING", "generate")
    ELSE set_state(emit_event(c1, "pipeline_complete", "pipeline", "info"),
                   "IDLE", "complete")

\* What tick does once run_script has returned ok, in the branch b.
tick_after(c, b, ok, cfg) ==
    CASE b = "COLLECTING" -> IF ok THEN after_generate(c) ELSE c
      [] b = "VALIDATING" -> IF ok THEN after_validate(c, cfg) ELSE c
      [] b = "TESTING" -> IF ok THEN after_test(c) ELSE c
      [] b = "FINALIZING" -> IF ok THEN after_train(c) ELSE c
      [] OTHER -> after_eval(c, ok, cfg)

\* run_script, lines 121-136: "false", "true" (mocked) or "wait" (go on to
\* the governor loop), with the engine as it leaves those lines.
run_script_entry(c, stage, cfg) ==
    IF c.mode = "full" /\ c.state = "IDLE"
    THEN [c |-> emit_event(c, "gatekeeper_violation", "execution", "critical"),
          result |-> "false"]
    ELSE IF c.stop THEN [c |-> c, result |-> "false"]
    ELSE IF cfg.mock_subprocesses
    THEN [c |-> emit_event(c, "script_success", stage, "info"), result |-> "true"]
    ELSE [c |-> c, result |-> "wait"]

\* run_script, lines 163-166: the wait budget is exhausted.
fail_budget(c, stage) ==
    set_state(emit_event(c, "pipeline_error", stage, "error"), "ERROR", "error")

\* run_script_exit with a failed worker treated like a successful one.
run_script_exit_ignores(c, stage, how) ==
    [c |-> emit_event(c, "script_success", stage, "info"), ok |-> TRUE]

\* run_script, lines 200-213: what follows Subprocess::execute.
ExecOutcomes == {"exit_zero", "exit_nonzero", "throws"}

run_script_exit(c, stage, how) ==
    IF how = "exit_zero"
    THEN [c |-> emit_event(c, "script_success", stage, "info"), ok |-> TRUE]
    ELSE [c |-> set_state(emit_event(c, "pipeline_error", "pipeline", "error"),
                          "ERROR", "error"),
          ok |-> FALSE]

\* Core::shutdown
shutdown(c) ==
    set_state(emit_event([c EXCEPT !.stop = TRUE], "pipeline_stop", "pipeline",
                         "info"),
              "IDLE", "interrupted")

\* action_train_now without the test of the mode.
action_train_now_any_mode(c) ==
    IF c.state = "IDLE"
    THEN set_state(c, "FINALIZING", "train")
    ELSE c

\* Core::action_train_now
action_train_now(c) ==
    IF c.mode = "collect" /\ c.state = "IDLE"
    THEN set_state(c, "FINALIZING", "train")
    ELSE c

\* holds_queue with the governor's answer ignored.
holds_queue_never(d) == FALSE

\* The test of line 154: the governor asks the caller to wait.
holds_queue(d) == d.decision = "HOLD_QUEUE"

\* The budget test of line 163, in milliseconds.
over_budget(w, cfg) == w > cfg.max_wall_time_minutes * 60000

(***************************************************************************)
(* JournalWriter.  A string is the sequence of the pieces it was streamed  *)
(* from: a message is a sequence of characters; a line is the sequence of  *)
(* the literals and values Event::to_json writes, followed by the newline. *)
(***************************************************************************)
\* [a-zA-Z0-9]
Alnum ==
    {"0", "1", "2", "3", "4", "5", "6", "7", "8", "9"} \cup
    {"a", "b", "c", "d", "e", "f", "g", "h", "i", "j", "k", "l", "m",
     "n", "o", "p", "q", "r", "s", "t", "u", "v", "w", "x", "y", "z"} \cup
    {"A", "B", "C", "D", "E", "F", "G", "H", "I", "J", "K", "L", "M",
     "N", "O", "P", "Q", "R", "S", "T", "U", "V", "W", "X", "Y", "Z"}
WordOrDash == Alnum \cup {"_", "-"}               \* [\w\-]
Space == {" ", "\t", "\n", "\r"}                  \* \s

Rep(c, n) == [i \in 1..n |-> c]

\* How many characters of s, from position i on, lie in the class cls (a
\* greedy quantifier over a character class).
span(s, i, cls) ==
    LET ends == {j \in i..Len(s) : s[j] \notin cls}
    IN IF i > Len(s) THEN 0
       ELSE IF ends = {} THEN Len(s) - i + 1
       ELSE (CHOOSE j \in ends : \A k \in ends : j <= k) - i

starts_with(s, i, lit) ==
    /\ i + Len(lit) - 1 <= Len(s)
    /\ SubSeq(s, i, i + Len(lit) - 1) = lit

\* The expressions of sanitize: the length of the match of expression re that
\* begins at position i of s, 0 when there is none.
regex_match(re, s, i) ==
    CASE re = "g[h]p_[a-zA-Z0-9]{36}" ->
           IF starts_with(s, i, <<"g", "h", "p", "_">>) /\ span(s, i + 4, Alnum) >= 36
           THEN 4 + 36 ELSE 0
      [] re = "s[k]-[a-zA-Z0-9]{20,}" ->
           IF starts_with(s, i, <<"s", "k", "-">>) /\ span(s, i + 3, Alnum) >= 20
           THEN 3 + span(s, i + 3, Alnum) ELSE 0
      [] re = "Bearer\\s+[\\w\\-]{20,}" ->
           LET ws == span(s, i + 6, Space)
               tok == span(s, i + 6 + ws, WordOrDash)
           IN IF starts_with(s, i, <<"B", "e", "a", "r", "e", "r">>)
                 /\ ws >= 1 /\ tok >= 20
              THEN 6 + ws + tok ELSE 0
      [] OTHER -> IF s[i] = re THEN 1 ELSE 0       \* a one-character expression

RECURSIVE leftmost(_, _)
\* The matches std::regex_replace takes: the leftmost one at or after
\* position from, then those after its end.  M[i] is the length of the match
\* that begins at i.
leftmost(M, from) ==
    LET starts == {i \in DOMAIN M : i >= from /\ M[i] > 0}
    IN IF starts = {} THEN {}
       ELSE LET j == CHOOSE i \in starts : \A k \in starts : i <= k
            IN {j} \cup leftmost(M, j + M[j])

RECURSIVE concat(_, _, _)
\* parts[lo] \o ... \o parts[hi]
concat(parts, lo, hi) ==
    IF lo > hi THEN <<>>
    ELSE IF lo = hi THEN parts[lo]
    ELSE LET mid == (lo + hi) \div 2
         IN concat(parts, lo, mid) \o concat(parts, mid + 1, hi)

\* std::regex_replace: every match, leftmost first, replaced by fmt; what no
\* match covers is copied.
regex_replace(s, re, fmt) ==
    LET M == [i \in 1..Len(s) |-> regex_match(re, s, i)]
        taken == leftmost(M, 1)
        parts == [i \in 1..Len(s) |->
                     IF i \in taken THEN fmt
                     ELSE IF \E j \in taken : j < i /\ i < j + M[j] THEN <<>>
                     ELSE <<s[i]>>]
    IN concat(parts, 1, Len(s))

GITHUB_TOKEN ==
    <<"[", "G", "I", "T", "H", "U", "B", "_", "T", "O", "K", "E", "N", "]">>
OPENAI_KEY == <<"[", "O", "P", "E", "N", "A", "I", "_", "K", "E", "Y", "]">>
BEARER_TOKEN ==
    <<"[", "B", "E", "A", "R", "E", "R", "_", "T", "O", "K", "E", "N", "]">>

\* The three redactions of sanitize, in its order.
redact(input) ==
    LET s1 == regex_replace(input, "g[h]p_[a-zA-Z0-9]{36}", GITHUB_TOKEN)
        s2 == regex_replace(s1, "s[k]-[a-zA-Z0-9]{20,}", OPENAI_KEY)
    IN regex_replace(s2, "Bearer\\s+[\\w\\-]{20,}", BEARER_TOKEN)

\* The JSON escaping of sanitize: newline, carriage return and double quote
\* get a backslash; the backslash itself is left as it is.
escape(safe) ==
    LET e1 == regex_replace(safe, "\n", <<"\\", "n">>)
        e2 == regex_replace(e1, "\r", <<"\\", "r">>)
    IN regex_replace(e2, "\"", <<"\\", "\"">>)

\* JournalWriter::sanitize
sanitize(input) == escape(redact(input))

SCHEMA_VERSION == "1.0"
MAX_PAYLOAD_BYTES == 1024 * 1024

RECURSIVE map_json(_)
\* The entries of a std::map as to_json writes them: "key":value, joined by
\* commas.  m is the sequence of its <<key, value>> pairs in key order.
map_json(m) ==
    IF m = <<>> THEN <<>>
    ELSE <<"\"", m[1][1], "\":", m[1][2]>> \o
         (IF Len(m) > 1 THEN <<",">> ELSE <<>>) \o map_json(Tail(m))

RECURSIVE list_json(_)
\* The elements of artifact_paths as to_json writes them: "path", joined by
\* commas.
list_json(v) ==
    IF v = <<>> THEN <<>>
    ELSE <<"\"", v[1], "\"">> \o
         (IF Len(v) > 1 THEN <<",">> ELSE <<>>) \o list_json(Tail(v))

\* The literal that opens each field in to_json.
KeyPiece ==
    [event_version |-> "\"event_version\":\"", ts |-> "\"ts\":\"",
     run_id |-> "\"run_id\":\"", round |-> "\"round\":",
     stage |-> "\"stage\":\"", level |-> "\"level\":\"",
     event_type |-> "\"event_type\":\"", message |-> "\"message\":\"",
     counters_delta |-> "\"counters_delta\":{",
     usage_delta |-> "\"usage_delta\":{",
     artifact_paths |-> "\"artifact_paths\":[",
     prev_hash |-> "\"prev_hash\":\""]

\* Event::to_json(prev_hash): the 12 fields in their fixed order.
to_json(e, prev_hash) ==
    <<"{",
      KeyPiece.event_version, SCHEMA_VERSION, "\",",
      KeyPiece.ts, e.ts, "\",",
      KeyPiece.run_id, e.run_id, "\",",
      KeyPiece.round, e.round, ",",
      KeyPiece.stage, e.stage, "\",",
      KeyPiece.level, e.level, "\",",
      KeyPiece.event_type, e.event_type, "\",",
      KeyPiece.message>> \o e.message \o <<"\",">> \o
    <<KeyPiece.counters_delta>> \o map_json(e.counters_delta) \o <<"},">> \o
    <<KeyPiece.usage_delta>> \o map_json(e.usage_delta) \o <<"},">> \o
    <<KeyPiece.artifact_paths>> \o list_json(e.artifact_paths) \o <<"],">> \o
    <<KeyPiece.prev_hash>> \o prev_hash \o <<"\"">> \o
    <<"}">>

\* A word of MAX_PAYLOAD_BYTES characters; every other piece counts as one.
BigWord == "aaaa...(1 MB)"
\* The values in use that hold "nan" or "inf".
NanInfWords == {"nan", "inf", "info"}
RequiredKeys ==
    {"event_version", "ts", "run_id", "round", "stage", "level", "event_type",
     "message", "counters_delta", "usage_delta", "artifact_paths", "prev_hash"}

CountToken(line, t) == Cardinality({i \in 1..Len(line) : line[i] = t})

\* The pieces that end with a comma and those that begin with a double quote.
EndsWithComma(p) == p \in {",", "\",", "},", "],"}
StartsWithQuote(p) ==
    p \in {"\"", "\",", "\":"} \cup {KeyPiece[k] : k \in RequiredKeys}

\* json_line.find(needle) # npos, for the needles of validate_strict.
find_nan_inf(line) ==
    \E i \in 1..Len(line) :
        \/ line[i] \in NanInfWords
        \/ /\ i + 2 <= Len(line)
           /\ SubSeq(line, i, i + 2) \in {<<"n", "a", "n">>, <<"i", "n", "f">>}

find_key(line, key) ==
    \E i \in 1..Len(line) :
        \/ line[i] = KeyPiece[key]
        \/ /\ i + 2 <= Len(line)
           /\ line[i] = "\"" /\ line[i + 1] = key /\ line[i + 2] = "\":"

find_version(line) ==
    \E i \in 1..(Len(line) - 2) :
        /\ line[i] = KeyPiece.event_version
        /\ line[i + 1] = SCHEMA_VERSION
        /\ StartsWithQuote(line[i + 2])

\* The number of occurrences of ," in the line.
comma_keys(line) ==
    Cardinality({i \in 1..(Len(line) - 1) :
                    EndsWithComma(line[i]) /\ StartsWithQuote(line[i + 1])})

\* JournalWriter::validate_strict: "ok", or the schema-lock error it throws.
validate_strict(json_line) ==
    IF Len(json_line) + (MAX_PAYLOAD_BYTES - 1) * CountToken(json_line, BigWord)
          > MAX_PAYLOAD_BYTES
    THEN "Schema Lock: Payload size exceeds limit"
    ELSE IF find_nan_inf(json_line)
    THEN "Schema Lock: Rejecting malformed float (NaN/Inf)"
    ELSE IF \E key \in RequiredKeys : ~find_key(json_line, key)
    THEN "Schema Lock: Missing required field"
    ELSE IF ~find_version(json_line)
    THEN "Schema Lock: Unsupported or missing event_version"
    ELSE IF comma_keys(json_line) # 11
    THEN "Schema Lock: Unknown or missing top-level fields"
    ELSE "ok"

\* JournalWriter::compute_sha256, as an ideal (collision-free) digest.
compute_sha256(data) == <<"sha256(">> \o data \o <<")">>

\* write with the digest taken over the line without its terminator.
write_hashes_json(w, event, opened) ==
    LET safe_event == [event EXCEPT !.message = sanitize(event.message)]
        json_line == to_json(safe_event, w.last_hash_)
    IN IF ~opened THEN w
       ELSE [w EXCEPT !.file = Append(@, json_line \o <<"\n">>),
                      !.last_hash_ = compute_sha256(json_line)]

\* JournalWriter::write; opened is whether the journal file could be opened
\* (write throws before it changes anything when it could not).
write(w, event, opened) ==
    LET safe_event == [event EXCEPT !.message = sanitize(event.message)]
        json_line == to_json(safe_event, w.last_hash_)
        line_with_newline == json_line \o <<"\n">>
    IN IF ~opened THEN w
       ELSE [w EXCEPT !.file = Append(@, line_with_newline),
                      !.last_hash_ = compute_sha256(line_with_newline)]

\* JournalWriter::current_hash
current_hash(w) == w.last_hash_

\* The secrets of JournalWriterTest.Redaction and a bearer token, character
\* by character.
GitHubToken == <<"g", "h", "p", "_">> \o Rep("1", 36)
ApiKey == <<"s", "k", "-">> \o Rep("2", 20)
BearerToken == <<"B", "e", "a", "r", "e", "r", " ">> \o Rep("3", 20)

\* The events and seeds explored (JournalWriterTest.HashChaining and
\* JournalWriterTest.Redaction).
Seeds == {<<"init_hash">>, <<"hash">>}
JwEvent(level, message, usage_delta) ==
    [ts |-> "2026-02-20T00:00:00.000Z", run_id |-> "run_1", round |-> "0",
     stage |-> "generate", level |-> level, event_type |-> "stage_start",
     message |-> message, counters_delta |-> <<>>,
     usage_delta |-> usage_delta, artifact_paths |-> <<>>]

\* The usage map Core::run_script attaches to script_success.
RunScriptUsage ==
    <<<<"system_cpu_pct", "5">>, <<"system_mem_available_kb_delta", "1024">>>>

JwEvents ==
    {JwEvent("info", m, <<>>) :
        m \in {<<"H", "i", " ", "W">>, <<"S", "e", "c">>,
               <<"k", "e", "y", " ">> \o ApiKey \o <<" ">> \o GitHubToken \o <<"!">>,
               BearerToken}}
    \cup {JwEvent("warn", <<"S", "e", "c">>, <<>>),
          JwEvent("warn", <<"d", "o", "n", "e">>, RunScriptUsage),
          JwEvent("warn", <<BigWord>>, <<>>)}

Pcts == {50, 95}        \* sampled CPU / memory utilisation, percent

(***************************************************************************)
(* Subprocess::execute (core/subprocess.cpp) and the child it forks.       *)
(* Time is counted in whole seconds, as elapsed_seconds is.                *)
(***************************************************************************)
GracePolls == 20        \* the waitpid(WNOHANG) polls after SIGTERM, 100 ms apart
MaxReads == 1           \* chunks of output explored per call
MaxTimeout == 2         \* timeout_seconds values explored: 0..MaxTimeout

NoStatus_ == [kind |-> "none", val |-> 0]
Exited(code) == [kind |-> "exited", val |-> code]
Signaled(sig) == [kind |-> "signaled", val |-> sig]

\* What execute hands back: a returned exit code or a thrown exception.
NoResult == [kind |-> "none", code |-> 0, what |-> ""]
Returned(code) == [kind |-> "return", code |-> code, what |-> ""]
Thrown(what) == [kind |-> "throw", code |-> 0, what |-> what]

\* Lines 117-122 and 143-150: the exit code made of a wait status.
exit_code(status) ==
    IF status.kind = "exited" THEN status.val
    ELSE IF status.kind = "signaled" THEN 128 + status.val
    ELSE -1

SigNum(sig) == IF sig = "SIGTERM" THEN 15 ELSE 9

\* grace_over with the grace period left out.
grace_over_at_once(i) == TRUE

\* Line 112: the grace loop has made all its polls.
grace_over(i) == i >= GracePolls

\* killpg(pid, sig): the signal goes to the process group whose id is the
\* child's pid.  execute never calls setpgid or setsid, so that group exists
\* only if the child made itself a group leader (own_group).
killpg(s, sig) ==
    LET hit == s.own_group /\ s.child = "running" IN
    [s EXCEPT !.sent = Append(@, [sig |-> sig, alive |-> s.child = "running",
                                  delivered |-> hit, polls |-> s.i]),
              !.term_pending = IF hit /\ sig = "SIGTERM" THEN TRUE ELSE @,
              !.child = IF hit /\ sig = "SIGKILL" THEN "zombie" ELSE @,
              !.status = IF hit /\ sig = "SIGKILL" THEN Signaled(SigNum(sig)) ELSE @,
              !.pipe_open = IF hit /\ sig = "SIGKILL" THEN FALSE ELSE @]

\* execute returns code, having appended the notes.
sp_return(s, notes, code) ==
    [s EXCEPT !.pc = "done", !.output = @ \o notes, !.result = Returned(code)]

\* A call that has not started.
SpCall(timeout_seconds) ==
    [pc |-> "start", timeout_seconds |-> timeout_seconds, elapsed_seconds |-> 0,
     timed_out |-> FALSE, i |-> 0, output |-> <<>>, reads |-> 0,
     result |-> NoResult, spawn |-> "none",
     child |-> "none", status |-> NoStatus_, pipe_open |-> FALSE,
     hangs |-> FALSE, own_group |-> FALSE, on_term |-> "default",
     others_reap |-> FALSE, term_pending |-> FALSE, sent |-> <<>>]

SpIdle == SpCall(0)

WorkerExitCodes == {0, 1, 127}      \* exit codes of the worker explored
TermReactions == {"default", "ignore", "exit0"}   \* the worker's SIGTERM handling
NoteTerm == "[HEIDI-CORE] Process terminated after SIGTERM timeout."
NoteReaped == "[HEIDI-CORE] Process was already reaped."
NoteKill == "[HEIDI-CORE] Process hung and was forcefully SIGKILLed."

(***************************************************************************)
(* The engine's actions.                                                   *)
(***************************************************************************)
\* JournalWriter::JournalWriter(journal_path, initial_hash)
JournalWriter(initial_hash) ==
    [file |-> <<>>, last_hash_ |-> initial_hash, seed |-> initial_hash]

JwIdle == JournalWriter(<<"init_hash">>)
GovIdle == [policy |-> NoPolicy, in |-> <<0, 0, 0, 0>>,
            out |-> GovernorResult("none", "none", 0)]

NoReq == [mode |-> "none", doctor_status |-> 0, key |-> FALSE,
          keystore |-> FALSE]

\* No undisturbed collect-mode run is being followed.
NoRun == [tracked |-> FALSE, path |-> <<>>, stages |-> 0, script_success |-> 0,
          round_start |-> 0]

CountEvents(j, event_type) ==
    Cardinality({i \in 1..Len(j) : j[i].event_type = event_type})

\* The run record after a step of tick that appended new_events, executed
\* executed stages (0 or 1) and has not failed (ok).
Track(new_events, executed, ok) ==
    run' = IF ~run.tracked \/ ~ok THEN NoRun
           ELSE [tracked |-> TRUE,
                 path |-> IF current_state_' # current_state_
                          THEN Append(run.path, current_state_')
                          ELSE run.path,
                 stages |-> run.stages + executed,
                 script_success |-> run.script_success
                                    + CountEvents(new_events, "script_success"),
                 round_start |-> run.round_start
                                 + CountEvents(new_events, "round_start")]

\* The lines a step within a tick appended.
NewLines == SubSeq(journal_', Len(journal_) + 1, Len(journal_'))

\* The stand-alone components while another specification runs.
SnIdle == [atoms |-> <<>>, via |-> "none", w |-> JwIdle]
VlIdle == [shape |-> "none", out |-> "none"]
CwIdle == [w |-> JwIdle, th |-> "none"]
SwIdle == [inode |-> <<>>, th |-> "none"]
SgIdle == [step |-> "none"]
MfIdle == [step |-> "none"]
AcIdle == [step |-> "none"]
PvIdle == [step |-> "none"]
RpIdle == [step |-> "none"]
ArIdle == [step |-> "none"]
LibIdle ==
    /\ sg = SgIdle /\ mf = MfIdle /\ ac = AcIdle
    /\ pv = PvIdle /\ rp = RpIdle /\ ar = ArIdle
AuxIdle == sn = SnIdle /\ vl = VlIdle /\ cw = CwIdle /\ sw = SwIdle /\ LibIdle

CoreInitState ==
    /\ inited = FALSE
    /\ config_ = DefaultConfig
    /\ policy_ = NoPolicy
    /\ current_state_ = "IDLE"
    /\ current_round_ = 0
    /\ mode_ = ""
    /\ stop_requested_ = FALSE
    /\ journal_ = <<>>
    /\ status_ = NoStatus
    /\ pc = "idle" /\ wait_ms = 0 /\ holds = 0
    /\ op = "none" /\ branch = "none" /\ workers = 0 /\ outcome = "none"
    /\ lastDecision = "none" /\ tick_clean = TRUE /\ req = NoReq
    /\ stops = 0 /\ run = NoRun /\ manifests = 0

Init ==
    CoreInitState /\ jw = JwIdle /\ gov = GovIdle /\ sp = SpIdle /\ AuxIdle

\* An operation other than tick begins while no tick is in progress.
BeginOp(name) ==
    /\ pc = "idle"
    /\ op' = name /\ branch' = "none" /\ workers' = 0 /\ outcome' = "none"
    /\ lastDecision' = "none" /\ tick_clean' = TRUE
    /\ UNCHANGED <<pc, wait_ms, holds>>

\* An operation of another thread falls into a tick in progress.
DuringTick ==
    /\ pc # "idle"
    /\ tick_clean' = FALSE
    /\ UNCHANGED <<pc, wait_ms, holds, op, branch, workers, outcome, lastDecision,
                   req>>

\* The engine as an operation that begins now finds it.
Fresh == [Cur EXCEPT !.journal = <<>>]

\* tick returns.
TickEnds == pc' = "idle" /\ wait_ms' = 0 /\ holds' = 0

\* Core::init
CoreInit ==
    /\ ~inited
    /\ BeginOp("init") /\ req' = NoReq
    /\ \E x \in InitChoices :
          /\ config_' = x[1]
          /\ policy_' = CorePolicy(x[1], x[2])
    /\ inited' = TRUE
    /\ Commit(Fresh)
    /\ run' = NoRun
    /\ UNCHANGED <<stops, manifests, jw, gov, sp, auxVars>>

\* Core::start(mode)
Start ==
    /\ BeginOp("start")
    /\ \E mode \in Modes, doctor_status \in {0, 1}, key \in BOOLEAN,
          keystore \in BOOLEAN :
          \* the gatekeeper's inputs are read in real mode only
          /\ mode # "real" => (doctor_status = 0 /\ key /\ keystore)
          /\ Commit(start(Fresh, mode, doctor_status, key, keystore))
          /\ req' = [mode |-> mode, doctor_status |-> doctor_status,
                      key |-> key, keystore |-> keystore]
          /\ run' = IF mode = "collect" /\ ~stop_requested_
                    THEN [NoRun EXCEPT !.tracked = TRUE,
                                       !.path = <<current_state_, current_state_'>>]
                    ELSE NoRun
    /\ UNCHANGED <<setupVars, stops, manifests, jw, gov, sp, auxVars>>

\* Core::tick up to the first place where it blocks.
TickBegin ==
    /\ pc = "idle"
    /\ op' = "tick" /\ branch' = current_state_ /\ workers' = 0
    /\ lastDecision' = "none" /\ tick_clean' = TRUE /\ req' = NoReq
    /\ wait_ms' = 0 /\ holds' = 0
    /\ IF tick_is_noop(Fresh)
       THEN Commit(Fresh) /\ pc' = "idle" /\ outcome' = "none"
       ELSE LET b == current_state_
                r == run_script_entry(tick_pre(Fresh, b), StageOf(b), config_)
            IN IF r.result = "wait"
               THEN Commit(r.c) /\ pc' = "govern" /\ outcome' = "none"
               ELSE /\ Commit(tick_after(r.c, b, r.result = "true", config_))
                    /\ pc' = "idle"
                    /\ outcome' = IF r.result = "true" THEN "mocked"
                                  ELSE "stopped"
    /\ Track(journal_', IF outcome' = "mocked" THEN 1 ELSE 0, outcome' # "stopped")
    /\ UNCHANGED <<setupVars, stops, manifests, jw, gov, sp, auxVars>>

\* One pass of run_script's wait loop (lines 143-174) on a fresh sample.
GovernStep ==
    /\ pc = "govern"
    /\ \E cpu \in Pcts, mem \in Pcts :
        LET d == decide(policy_, cpu, mem, 1, 0)
            stage == StageOf(branch)
        IN
        IF stop_requested_
        THEN /\ Commit(tick_after(Cur, branch, FALSE, config_))
             /\ TickEnds /\ outcome' = "stopped"
             /\ UNCHANGED <<workers, lastDecision>>
        ELSE IF inited /\ holds_queue(d)
        THEN /\ holds < MaxHolds
             /\ lastDecision' = d.decision
             /\ UNCHANGED workers
             /\ LET c1 == emit_event(Cur, "pipeline_throttled", stage, "warn")
                    w == wait_ms + d.retry_after_ms
                IN IF over_budget(w, config_)
                   THEN /\ Commit(tick_after(fail_budget(c1, stage), branch,
                                             FALSE, config_))
                        /\ TickEnds /\ outcome' = "over_budget"
                   ELSE /\ Commit(c1)
                        /\ wait_ms' = w /\ holds' = holds + 1
                        /\ UNCHANGED <<pc, outcome>>
        ELSE \* the worker is launched (line 190)
             /\ pc' = "exec"
             /\ workers' = workers + 1
             /\ lastDecision' = IF inited THEN d.decision ELSE lastDecision
             /\ UNCHANGED <<engineVars, wait_ms, holds, outcome>>
    /\ Track(NewLines, workers' - workers, outcome' = "none")
    /\ UNCHANGED <<setupVars, op, branch, tick_clean, req, stops, manifests, jw, gov, sp, auxVars>>

\* Subprocess::execute returns (or throws) and tick runs to its end.
Exec ==
    /\ pc = "exec"
    /\ \E o \in ExecOutcomes :
        /\ outcome' = o
        /\ LET r == run_script_exit(Cur, StageOf(branch), o)
           IN Commit(tick_after(r.c, branch, r.ok, config_))
    /\ TickEnds
    /\ Track(NewLines, 0, outcome' = "exit_zero")
    /\ UNCHANGED <<setupVars, op, branch, workers, lastDecision, tick_clean,
                   req, stops, manifests, jw, gov, sp, auxVars>>

\* Core::shutdown, from any thread at any time.
Shutdown ==
    /\ stops < MaxStops
    /\ stops' = stops + 1
    /\ \/ BeginOp("shutdown") /\ req' = NoReq /\ Commit(shutdown(Fresh))
       \/ DuringTick /\ Commit(shutdown(Cur))
    /\ run' = NoRun
    /\ UNCHANGED <<setupVars, manifests, jw, gov, sp, auxVars>>

\* Core::action_train_now, from the HTTP thread at any time.
ActionTrainNow ==
    /\ \/ BeginOp("train_now") /\ req' = NoReq
          /\ Commit(action_train_now(Fresh))
       \/ DuringTick /\ Commit(action_train_now(Cur))
    /\ run' = NoRun
    /\ UNCHANGED <<setupVars, stops, manifests, jw, gov, sp, auxVars>>

Next ==
    \/ CoreInit
    \/ Start
    \/ TickBegin
    \/ GovernStep
    \/ Exec
    \/ Shutdown
    \/ ActionTrainNow

Spec == Init /\ [][Next]_vars


(***************************************************************************)
(* A JournalWriter on its own: any sequence of write calls.                *)
(***************************************************************************)
JwInit ==
    /\ CoreInitState /\ gov = GovIdle /\ sp = SpIdle /\ AuxIdle
    /\ \E seed \in Seeds : jw = JournalWriter(seed)

JwWrite ==
    /\ Len(jw.file) < MaxWrites
    /\ \E e \in JwEvents, opened \in BOOLEAN : jw' = write(jw, e, opened)
    /\ UNCHANGED <<coreVars, gov, sp, auxVars>>

JwNext == JwWrite

SpecJournal == JwInit /\ [][JwNext]_vars

(***************************************************************************)
(* ResourceGovernor::decide on its own: any policy, any inputs.            *)
(***************************************************************************)
GovPolicies ==
    [cpu_high_watermark_pct : {80, 90}, mem_high_watermark_pct : {90},
     max_running_jobs : {DefaultMaxRunningJobs}, max_queue_depth : {1},
     cooldown_ms : {0, 1000}]
GovInputs == {50, 80, 85, 95} \X {50, 80, 95} \X {0, 1, 10, 11} \X {0, 1}

GovInit ==
    /\ CoreInitState /\ jw = JwIdle /\ sp = SpIdle /\ AuxIdle
    /\ \E p \in GovPolicies, i \in GovInputs :
          gov = [policy |-> p, in |-> i, out |-> GovernorResult("none", "none", 0)]

GovDecide ==
    /\ gov.out.decision = "none"
    /\ gov' = [gov EXCEPT !.out = decide(gov.policy, gov.in[1], gov.in[2],
                                         gov.in[3], gov.in[4])]
    /\ UNCHANGED <<coreVars, jw, sp, auxVars>>

GovNext == GovDecide

SpecGovernor == GovInit /\ [][GovNext]_vars


(***************************************************************************)
(* Subprocess::execute on its own: one call, its child and the rest of the *)
(* system as they interleave.                                              *)
(***************************************************************************)
SpInit ==
    /\ CoreInitState /\ jw = JwIdle /\ gov = GovIdle /\ AuxIdle
    /\ \E t \in 0..MaxTimeout : sp = SpCall(t)

SpOnly == UNCHANGED <<coreVars, jw, gov, auxVars>>

\* Lines 26-52: fork, and execvp in the child.
SpFork ==
    /\ sp.pc = "start"
    /\ \/ sp' = [sp EXCEPT !.pc = "done", !.spawn = "fork_fail",
                           !.result = Thrown("failed to fork")]
       \/ \E others_reap \in BOOLEAN :
             sp' = [sp EXCEPT !.pc = "poll", !.spawn = "exec_fail",
                              !.child = "zombie", !.status = Exited(127),
                              !.others_reap = others_reap]
       \/ \E hangs \in BOOLEAN, own_group \in BOOLEAN, on_term \in TermReactions,
             others_reap \in BOOLEAN :
             sp' = [sp EXCEPT !.pc = "poll", !.spawn = "ran",
                              !.child = "running", !.pipe_open = TRUE,
                              !.hangs = hangs, !.own_group = own_group,
                              !.on_term = on_term, !.others_reap = others_reap]
    /\ SpOnly

\* Lines 62-105: one pass of the read loop.
SpPoll ==
    /\ sp.pc = "poll"
    /\ IF sp.timeout_seconds > 0 /\ sp.elapsed_seconds >= sp.timeout_seconds
       THEN sp' = [sp EXCEPT !.timed_out = TRUE, !.pc = "term"]
       ELSE \/ /\ sp.pipe_open /\ sp.child = "running" /\ sp.reads < MaxReads
               /\ sp' = [sp EXCEPT !.output = Append(@, "data"), !.reads = @ + 1]
            \/ /\ ~sp.pipe_open          \* EOF or POLLHUP
               /\ sp' = [sp EXCEPT !.pc = "wait"]
            \/ /\ sp.pipe_open /\ sp.timeout_seconds > 0   \* poll timed out
               /\ sp' = [sp EXCEPT !.elapsed_seconds = @ + 1]
    /\ SpOnly

\* Lines 107-109: the deadline has passed, SIGTERM is sent.
SpTerm ==
    /\ sp.pc = "term"
    /\ sp' = [killpg(sp, "SIGTERM") EXCEPT !.pc = "grace", !.i = 0]
    /\ SpOnly

\* Lines 112-132: one pass of the grace loop, or SIGKILL once it is over.
SpGrace ==
    /\ sp.pc = "grace"
    /\ IF grace_over(sp.i)
       THEN sp' = [killpg(sp, "SIGKILL") EXCEPT !.pc = "wait_kill"]
       ELSE IF sp.child = "zombie"
       THEN sp' = sp_return([sp EXCEPT !.child = "reaped"], <<NoteTerm>>,
                            exit_code(sp.status))
       ELSE IF sp.child = "gone"
       THEN sp' = sp_return(sp, <<NoteReaped>>, -1)
       ELSE sp' = [sp EXCEPT !.i = @ + 1]
    /\ SpOnly

\* Lines 133-136: the blocking waitpid after SIGKILL.
SpWaitKill ==
    /\ sp.pc = "wait_kill"
    /\ sp.child \in {"zombie", "gone"}
    /\ sp' = sp_return([sp EXCEPT !.child = IF @ = "zombie" THEN "reaped" ELSE @],
                       <<NoteKill>>, -1)
    /\ SpOnly

\* Lines 140-150: the blocking waitpid of a call that did not time out.  When
\* the child was reaped elsewhere waitpid fails and status is read
\* uninitialised.
SpWait ==
    /\ sp.pc = "wait"
    /\ \/ /\ sp.child = "zombie"
          /\ sp' = sp_return([sp EXCEPT !.child = "reaped"], <<>>,
                             exit_code(sp.status))
       \/ /\ sp.child = "gone"
          /\ \E code \in {0, 1, -1} : sp' = sp_return(sp, <<>>, code)
    /\ SpOnly

SpRunning == sp.child = "running" /\ sp.pc \notin {"start", "done"}

\* The worker closes its standard output and error while it goes on running.
ChildCloses ==
    /\ SpRunning /\ sp.pipe_open
    /\ sp' = [sp EXCEPT !.pipe_open = FALSE]
    /\ SpOnly

\* The worker exits of its own accord.
ChildExits ==
    /\ SpRunning /\ ~sp.hangs
    /\ \E code \in WorkerExitCodes :
          sp' = [sp EXCEPT !.child = "zombie", !.status = Exited(code),
                           !.pipe_open = FALSE, !.term_pending = FALSE]
    /\ SpOnly

\* The worker handles a SIGTERM that reached it.
ChildReacts ==
    /\ SpRunning /\ sp.term_pending
    /\ sp' = CASE sp.on_term = "default" ->
                    [sp EXCEPT !.child = "zombie", !.pipe_open = FALSE,
                               !.status = Signaled(SigNum("SIGTERM")),
                               !.term_pending = FALSE]
               [] sp.on_term = "exit0" ->
                    [sp EXCEPT !.child = "zombie", !.pipe_open = FALSE,
                               !.status = Exited(0), !.term_pending = FALSE]
               [] OTHER -> [sp EXCEPT !.term_pending = FALSE]
    /\ SpOnly

\* Another waiter of the process (a SIGCHLD handler) reaps the child.
OthersReap ==
    /\ sp.child = "zombie" /\ sp.others_reap /\ sp.pc # "done"
    /\ sp' = [sp EXCEPT !.child = "gone"]
    /\ SpOnly

SpNext ==
    \/ SpFork
    \/ SpPoll
    \/ SpTerm
    \/ SpGrace
    \/ SpWaitKill
    \/ SpWait
    \/ ChildCloses
    \/ ChildExits
    \/ ChildReacts
    \/ OthersReap

SpecSubprocess == SpInit /\ [][SpNext]_vars

(***************************************************************************)
(* A message on its way into a journal: handed to write as it is, or, as   *)
(* the output of a failed worker, through the error path of run_script.    *)
(***************************************************************************)
MaxAtoms == 3           \* pieces a message explored is put together from

\* The pieces: the three secrets, and text between them.
AtomText ==
    [github |-> GitHubToken, key |-> ApiKey, bearer |-> BearerToken,
     space |-> <<" ">>, quote |-> <<"\"">>, newline |-> <<"\n">>,
     word |-> <<"o", "k">>]
SecretAtoms == {"github", "key", "bearer"}

RECURSIVE text_of(_)
text_of(atoms) ==
    IF atoms = <<>> THEN <<>> ELSE AtomText[Head(atoms)] \o text_of(Tail(atoms))

SnInputs ==
    UNION {[1..n -> DOMAIN AtomText] : n \in 1..MaxAtoms}

\* err_msg of run_script: script_name + " failed with exit code " + status +
\* ":\n" + output.substr(0, 200).
err_msg(script_name, status, output) ==
    <<script_name, " failed with exit code ", status, ":", "\n">> \o
    SubSeq(output, 1, IF Len(output) < 200 THEN Len(output) ELSE 200)

\* The event emit_event builds for pipeline_error.
ErrorEvent(message) ==
    [JwEvent("error", message, RunScriptUsage)
        EXCEPT !.stage = "pipeline", !.event_type = "pipeline_error"]

SnInit ==
    /\ CoreInitState /\ jw = JwIdle /\ gov = GovIdle /\ sp = SpIdle
    /\ vl = VlIdle /\ cw = CwIdle /\ sw = SwIdle /\ LibIdle
    /\ \E atoms \in SnInputs : sn = [atoms |-> atoms, via |-> "none", w |-> JwIdle]

SnOnly == UNCHANGED <<coreVars, jw, gov, sp, vl, cw, sw, libVars>>

\* journal_->write(e) for an event with this message.
SnWrite ==
    /\ sn.via = "none"
    /\ sn' = [sn EXCEPT !.via = "write",
                        !.w = write(@, JwEvent("warn", text_of(sn.atoms), <<>>), TRUE)]
    /\ SnOnly

\* The status != 0 branch of run_script with this worker output:
\* emit_event("pipeline_error", journal_->sanitize(err_msg), ...), which
\* hands the event to write.
SnRunScriptError ==
    /\ sn.via = "none"
    /\ LET m == err_msg("scripts/02_validate_clean.py", "1", text_of(sn.atoms))
       IN sn' = [sn EXCEPT !.via = "run_script",
                           !.w = write(@, ErrorEvent(sanitize(m)), TRUE)]
    /\ SnOnly

SnNext == SnWrite \/ SnRunScriptError

SpecSanitize == SnInit /\ [][SnNext]_vars

(***************************************************************************)
(* JournalWriter::validate_strict on its own.  The lines it is given are   *)
(* the serialisation of an event, as it is or after one edit of the kind   *)
(* the schema lock is there to catch.                                      *)
(***************************************************************************)
\* The line with its event_version value replaced.
with_version(line, version) == [line EXCEPT ![3] = version]

\* The line without the top-level field key (a string field, which to_json
\* writes as its literal, its value and the closing quote and comma).
drop_field(line, key) ==
    IF key = "none" THEN line
    ELSE LET p == CHOOSE i \in 1..Len(line) : line[i] = KeyPiece[key]
         IN SubSeq(line, 1, p - 1) \o SubSeq(line, p + 3, Len(line))

\* The line with one more top-level field after event_version: a second ts
\* written as to_json writes fields, or a field named extra that follows a
\* comma and a space.
add_field(line, how) ==
    CASE how = "none" -> line
      [] how = "second_ts" ->
           SubSeq(line, 1, 4) \o <<KeyPiece.ts, "now", "\",">> \o
           SubSeq(line, 5, Len(line))
      [] how = "extra_after_space" ->
           SubSeq(line, 1, 3) \o <<"\"", ", ", "\"extra\":\"", "x", "\",">> \o
           SubSeq(line, 5, Len(line))

VlUsages ==
    {<<>>, <<<<"ts", "1">>>>, <<<<"a", "1">>, <<"ts", "2">>>>, RunScriptUsage}
VlShapes ==
    [level : {"warn", "info"}, usage : VlUsages, version : {SCHEMA_VERSION, "2.0"},
     drop : {"none", "ts"}, add : {"none", "second_ts", "extra_after_space"},
     message : {<<"m">>, <<"a", ",">>, <<BigWord>>}, round : {"1", "nan"}]

\* The line a shape stands for (prev_hash "h", as in
\* JournalWriterTest.StrictSchemaValidation).
line_of(shape) ==
    LET e == [JwEvent(shape.level, shape.message, shape.usage)
                 EXCEPT !.round = shape.round]
    IN add_field(drop_field(with_version(to_json(e, <<"h">>), shape.version),
                            shape.drop),
                 shape.add)

VlInit ==
    /\ CoreInitState /\ jw = JwIdle /\ gov = GovIdle /\ sp = SpIdle
    /\ sn = SnIdle /\ cw = CwIdle /\ sw = SwIdle /\ LibIdle
    /\ \E shape \in VlShapes : vl = [shape |-> shape, out |-> "none"]

VlValidate ==
    /\ vl.out = "none"
    /\ vl' = [vl EXCEPT !.out = validate_strict(line_of(vl.shape))]
    /\ UNCHANGED <<coreVars, jw, gov, sp, sn, cw, sw, libVars>>

VlNext == VlValidate

SpecValidate == VlInit /\ [][VlNext]_vars

(***************************************************************************)
(* One JournalWriter written to by two threads: the engine thread of       *)
(* Daemon::start, whose tick emits events, and the thread that calls       *)
(* shutdown.  write takes no lock, so its statements interleave; a read of *)
(* last_hash_ that overlaps an assignment to it is a data race.            *)
(***************************************************************************)
MaxCalls == 2           \* write() calls explored per thread

Threads == {"engine", "stopper"}
\* What each thread writes: tick's stage_start, shutdown's pipeline_stop.
CwEvent(t) ==
    IF t = "engine"
    THEN JwEvent("warn", <<"S", "t", "a", "r", "t">>, <<>>)
    ELSE [JwEvent("warn", <<"S", "t", "o", "p">>, <<>>)
             EXCEPT !.stage = "pipeline", !.event_type = "pipeline_stop"]

TornHash == <<"torn">>      \* a value read or left while last_hash_ is being assigned

CwIdleThread == [pc |-> "idle", line |-> <<>>, calls |-> 0]

CwInit ==
    /\ CoreInitState /\ jw = JwIdle /\ gov = GovIdle /\ sp = SpIdle
    /\ sn = SnIdle /\ vl = VlIdle /\ sw = SwIdle /\ LibIdle
    /\ cw = [w |-> JwIdle, th |-> [t \in Threads |-> CwIdleThread]]

CwOnly == UNCHANGED <<coreVars, jw, gov, sp, sn, vl, sw, libVars>>

\* Lines 139-143: sanitize, then to_json(last_hash_).
CwSerialize(t) ==
    /\ cw.th[t].pc = "idle" /\ cw.th[t].calls < MaxCalls
    /\ \E h \in {cw.w.last_hash_} \cup
                UNION {{compute_sha256(cw.th[u].line), TornHash} :
                          u \in {u \in Threads : u # t /\ cw.th[u].pc = "assigning"}} :
          LET safe_event ==
                  [CwEvent(t) EXCEPT !.message = sanitize(CwEvent(t).message)]
          IN cw' = [cw EXCEPT !.th[t].pc = "serialized",
                              !.th[t].line = to_json(safe_event, h) \o <<"\n">>]
    /\ CwOnly

\* Lines 146-151: open for append (throw when that fails), write, flush.
CwAppend(t) ==
    /\ cw.th[t].pc = "serialized"
    /\ \E opened \in BOOLEAN :
          cw' = IF opened
                THEN [cw EXCEPT !.w.file = Append(@, cw.th[t].line),
                                !.th[t].pc = "appended"]
                ELSE [cw EXCEPT !.th[t] = [CwIdleThread EXCEPT !.calls = cw.th[t].calls + 1]]
    /\ CwOnly

\* Line 154, the assignment to last_hash_ begins ...
CwAssignBegin(t) ==
    /\ cw.th[t].pc = "appended"
    /\ cw' = [cw EXCEPT !.th[t].pc = "assigning"]
    /\ CwOnly

\* ... and ends; write returns.
CwAssignEnd(t) ==
    /\ cw.th[t].pc = "assigning"
    /\ \E h \in {compute_sha256(cw.th[t].line)} \cup
                (IF \E u \in Threads : u # t /\ cw.th[u].pc = "assigning"
                 THEN {TornHash} ELSE {}) :
          cw' = [cw EXCEPT !.w.last_hash_ = h,
                           !.th[t] = [CwIdleThread EXCEPT !.calls = cw.th[t].calls + 1]]
    /\ CwOnly

CwNext ==
    \E t \in Threads :
        CwSerialize(t) \/ CwAppend(t) \/ CwAssignBegin(t) \/ CwAssignEnd(t)

SpecJournalRace == CwInit /\ [][CwNext]_vars

(***************************************************************************)
(* One StatusWriter written through by two threads: the engine thread,     *)
(* whose tick calls set_state, and the thread that calls shutdown.  Both   *)
(* use the path status_path_ + ".tmp".  A file is an inode; a path names   *)
(* one; an open stream keeps its inode and writes from offset 0.           *)
(***************************************************************************)
MaxPersist == 2         \* StatusWriter::write calls explored per thread

\* The document set_state hands to write, as the pieces it streams.
status_json(run_id, status, current_round, current_stage) ==
    <<"{", "\"run_id\":\"", run_id, "\",", "\"status\":\"", status, "\",",
      "\"current_round\":", current_round, ",",
      "\"current_stage\":\"", current_stage, "\"", "}">>

\* What each thread persists: tick's set_state("COLLECTING", "generate"),
\* shutdown's set_state("IDLE", "interrupted").
SwDoc(t) ==
    IF t = "engine" THEN status_json("run_1", "running", "1", "generate")
    ELSE status_json("run_1", "completed", "1", "interrupted")

\* The number of bytes of the values that differ between the documents; every
\* other piece is the same in both.
PieceBytes == [running |-> 7, completed |-> 9, generate |-> 8, interrupted |-> 11]

RECURSIVE byte_len(_)
byte_len(doc) ==
    IF doc = <<>> THEN 0
    ELSE (IF Head(doc) \in DOMAIN PieceBytes THEN PieceBytes[Head(doc)] ELSE 0)
         + byte_len(Tail(doc))

\* The content of a file after a stream at offset 0 writes doc into it: the
\* bytes beyond the end of doc stay.
overwrite(old, doc) ==
    IF old = <<>> \/ old = doc \/ byte_len(doc) >= byte_len(old) THEN doc
    ELSE doc \o <<"(rest of the longer document)">>

NoInode == 0
Inodes == 1..(2 * MaxPersist)
SwIdleThread == [pc |-> "idle", fd |-> NoInode, calls |-> 0, threw |-> "none"]

SwInit ==
    /\ CoreInitState /\ jw = JwIdle /\ gov = GovIdle /\ sp = SpIdle
    /\ sn = SnIdle /\ vl = VlIdle /\ cw = CwIdle /\ LibIdle
    /\ sw = [inode |-> [i \in Inodes |-> <<>>], next |-> 1,
             tmp_path |-> NoInode, status_path |-> NoInode,
             th |-> [t \in Threads |-> SwIdleThread]]

SwOnly == UNCHANGED <<coreVars, jw, gov, sp, sn, vl, cw, libVars>>

\* Lines 17-20: std::ofstream ofs(tmp_path) creates the file or truncates the
\* one the path names; write throws when the stream is not open.
SwOpen(t) ==
    /\ sw.th[t].pc = "idle" /\ sw.th[t].calls < MaxPersist
    /\ \E opened \in BOOLEAN :
          sw' = IF ~opened
                THEN [sw EXCEPT !.th[t].calls = @ + 1, !.th[t].threw = "open"]
                ELSE IF sw.tmp_path = NoInode
                THEN [sw EXCEPT !.tmp_path = sw.next, !.next = @ + 1,
                                !.inode[sw.next] = <<>>,
                                !.th[t].pc = "open", !.th[t].fd = sw.next]
                ELSE [sw EXCEPT !.inode[sw.tmp_path] = <<>>,
                                !.th[t].pc = "open", !.th[t].fd = sw.tmp_path]
    /\ SwOnly

\* Lines 21-23: the document goes to the stream's file; flush, close.
SwFlush(t) ==
    /\ sw.th[t].pc = "open"
    /\ sw' = [sw EXCEPT !.inode[sw.th[t].fd] = overwrite(@, SwDoc(t)),
                        !.th[t].pc = "closed", !.th[t].fd = NoInode]
    /\ SwOnly

\* Lines 26-28: rename(tmp_path, status_path_); write throws when there is no
\* file at tmp_path any more.
SwRename(t) ==
    /\ sw.th[t].pc = "closed"
    /\ sw' = IF sw.tmp_path = NoInode
             THEN [sw EXCEPT !.th[t] = [SwIdleThread EXCEPT !.calls = sw.th[t].calls + 1,
                                                            !.threw = "rename"]]
             ELSE [sw EXCEPT !.status_path = sw.tmp_path, !.tmp_path = NoInode,
                             !.th[t] = [SwIdleThread EXCEPT !.calls = sw.th[t].calls + 1,
                                                            !.threw = sw.th[t].threw]]
    /\ SwOnly

SwNext == \E t \in Threads : SwOpen(t) \/ SwFlush(t) \/ SwRename(t)

SpecStatusRace == SwInit /\ [][SwNext]_vars


(***************************************************************************)
(* The frame of the specifications of the library classes: everything      *)
(* modelled above stays idle while one of them runs.                       *)
(***************************************************************************)
baseVars == <<coreVars, jw, gov, sp, sn, vl, cw, sw>>
BaseIdle ==
    /\ CoreInitState /\ jw = JwIdle /\ gov = GovIdle /\ sp = SpIdle
    /\ sn = SnIdle /\ vl = VlIdle /\ cw = CwIdle /\ sw = SwIdle

(***************************************************************************)
(* SignatureUtil (core/manifest.cpp).  A string is a sequence of bytes;    *)
(* "NUL" is the zero byte, which a std::string may hold and which          *)
(* key.c_str(), key.length() hand to HMAC like any other byte.  HMAC       *)
(* (RFC 2104) pads a key shorter than the 64-byte block of SHA-256 with    *)
(* zero bytes before it uses it; block_key names the padded key by the key *)
(* without its trailing zero bytes.  The keys drawn here are far shorter   *)
(* than a block, so the hashing of longer keys never applies.  Beyond the  *)
(* padding the MAC is ideal: different (padded key, data) pairs have       *)
(* different MACs.  The signature is the MAC in lower-case hexadecimal.    *)
(***************************************************************************)
MaxKey == 2

RECURSIVE block_key(_)
block_key(key) ==
    IF key # <<>> /\ key[Len(key)] = "NUL"
    THEN block_key(SubSeq(key, 1, Len(key) - 1))
    ELSE key

HMAC(key, data) == [k |-> block_key(key), d |-> data]

hmac_sha256(data, key) == [hex |-> "lower", mac |-> HMAC(key, data)]

\* A verify that looks at the form of the signature only.
verify_form_only(data, signature, key) == signature.hex = "lower"

verify(data, signature, key) ==
    LET expected == hmac_sha256(data, key)
    IN  expected = signature

SeqsUpTo(S, n) == UNION {[1..k -> S] : k \in 0..n}
SgKeys == SeqsUpTo({"k", "NUL"}, MaxKey)
\* A document and the same document with a byte appended, as the test tampers it.
SgDatas == {<<"a">>, <<"a", " ">>}
\* What a caller may present as a signature: a signature of some data under
\* some key, or one of those in upper-case hexadecimal.
SgSignatures ==
    {[hex |-> h, mac |-> HMAC(k, d)] : h \in {"lower", "upper"}, k \in SgKeys, d \in SgDatas}

SgOnly == UNCHANGED <<baseVars, mf, ac, pv, rp, ar>>

SgInit ==
    /\ BaseIdle
    /\ mf = MfIdle /\ ac = AcIdle /\ pv = PvIdle /\ rp = RpIdle /\ ar = ArIdle
    /\ \E d \in SgDatas, k \in SgKeys :
         sg = [step |-> "fresh", data |-> d, key |-> k]

SgSign ==
    /\ sg.step = "fresh"
    /\ sg' = [step |-> "signed", data |-> sg.data, key |-> sg.key,
              sig |-> hmac_sha256(sg.data, sg.key)]
    /\ SgOnly

SgVerify ==
    /\ sg.step = "signed"
    /\ \E d \in SgDatas, s \in SgSignatures, k \in SgKeys :
         sg' = [step |-> "verified", data |-> sg.data, key |-> sg.key, sig |-> sg.sig,
                vdata |-> d, vsig |-> s, vkey |-> k, ok |-> verify(d, s, k)]
    /\ SgOnly

SgNext == SgSign \/ SgVerify

SpecSignature == SgInit /\ [][SgNext]_vars

(***************************************************************************)
(* Manifest::to_canonical_json (core/manifest.cpp).  The document is the   *)
(* sequence of the pieces the function streams: its literals, the string   *)
(* fields as they are (nothing is escaped) and the integers in decimal.    *)
(* guardrail_snapshot is a std::map<std::string, std::string>: a function  *)
(* from keys to values, which the range-for visits in ascending order of   *)
(* std::less<std::string>, the byte-wise lexicographic order.              *)
(***************************************************************************)
\* The bytes of the names that are compared, and the bytes in ASCII order.
Ascii == <<"_", "a", "c", "d", "e", "f", "g", "h", "i", "k", "l", "m", "n", "o",
           "p", "r", "s", "t", "u", "v", "y">>
bytes_of ==
    [cp |-> <<"c", "p">>, cpu |-> <<"c", "p", "u">>, mem |-> <<"m", "e", "m">>,
     created_at |-> <<"c", "r", "e", "a", "t", "e", "d", "_", "a", "t">>,
     dataset_hash |-> <<"d", "a", "t", "a", "s", "e", "t", "_", "h", "a", "s", "h">>,
     engine_version |-> <<"e", "n", "g", "i", "n", "e", "_", "v", "e", "r", "s", "i", "o", "n">>,
     event_count |-> <<"e", "v", "e", "n", "t", "_", "c", "o", "u", "n", "t">>,
     final_state |-> <<"f", "i", "n", "a", "l", "_", "s", "t", "a", "t", "e">>,
     guardrail_snapshot |-> <<"g", "u", "a", "r", "d", "r", "a", "i", "l", "_",
                              "s", "n", "a", "p", "s", "h", "o", "t">>,
     record_count |-> <<"r", "e", "c", "o", "r", "d", "_", "c", "o", "u", "n", "t">>,
     replay_hash |-> <<"r", "e", "p", "l", "a", "y", "_", "h", "a", "s", "h">>,
     run_id |-> <<"r", "u", "n", "_", "i", "d">>,
     schema_version |-> <<"s", "c", "h", "e", "m", "a", "_", "v", "e", "r", "s", "i", "o", "n">>,
     signing_key_id |-> <<"s", "i", "g", "n", "i", "n", "g", "_", "k", "e", "y", "_", "i", "d">>,
     total_runtime_sec |-> <<"t", "o", "t", "a", "l", "_", "r", "u", "n", "t", "i", "m", "e",
                             "_", "s", "e", "c">>]

byte_rank(b) == CHOOSE i \in 1..Len(Ascii) : Ascii[i] = b

\* std::less<std::string>: the first differing byte decides, a proper prefix is less.
string_less(a, b) ==
    LET x == bytes_of[a]
        y == bytes_of[b]
        common == {i \in 1..Len(x) : i <= Len(y) /\ \A j \in 1..i : x[j] = y[j]}
        n == Cardinality(common)
    IN  IF n = Len(x) \/ n = Len(y)
        THEN Len(x) < Len(y)
        ELSE byte_rank(x[n + 1]) < byte_rank(y[n + 1])

\* The keys of a map in the reverse of the order the range-for visits them.
map_keys_descending(m) ==
    LET keys == DOMAIN m
    IN  CHOOSE s \in [1..Cardinality(keys) -> keys] :
            /\ \A k \in keys : \E i \in DOMAIN s : s[i] = k
            /\ \A i, j \in DOMAIN s : i < j => string_less(s[j], s[i])

\* The keys of a std::map in the order the range-for visits them.
map_keys(m) ==
    LET keys == DOMAIN m
    IN  CHOOSE s \in [1..Cardinality(keys) -> keys] :
            /\ \A k \in keys : \E i \in DOMAIN s : s[i] = k
            /\ \A i, j \in DOMAIN s : i < j => string_less(s[i], s[j])

RECURSIVE snapshot_json(_, _, _)
snapshot_json(m, keys, i) ==
    IF i > Len(keys) THEN <<>>
    ELSE (IF i > 1 THEN <<",">> ELSE <<>>)
         \o <<"\"", keys[i], "\":\"", m[keys[i]], "\"">>
         \o snapshot_json(m, keys, i + 1)

to_canonical_json(m) ==
    <<"{",
      "\"created_at\":\"", m.created_at, "\",",
      "\"dataset_hash\":\"", m.dataset_hash, "\",",
      "\"engine_version\":\"", m.engine_version, "\",",
      "\"event_count\":", ToString(m.event_count), ",",
      "\"final_state\":\"", m.final_state, "\",",
      "\"guardrail_snapshot\":{">>
    \o snapshot_json(m.guardrail_snapshot, map_keys(m.guardrail_snapshot), 1)
    \o <<"},",
         "\"record_count\":", ToString(m.record_count), ",",
         "\"replay_hash\":\"", m.replay_hash, "\",",
         "\"run_id\":\"", m.run_id, "\",",
         "\"schema_version\":\"", m.schema_version, "\",",
         "\"signing_key_id\":\"", m.signing_key_id, "\",",
         "\"total_runtime_sec\":", ToString(m.total_runtime_sec),
         "}">>

\* A default-constructed Manifest (core/manifest.h).
NewManifest ==
    [run_id |-> "", engine_version |-> "", created_at |-> "", schema_version |-> "",
     dataset_hash |-> "", record_count |-> 0, replay_hash |-> "", signing_key_id |-> "",
     final_state |-> "", total_runtime_sec |-> 0, event_count |-> 0,
     guardrail_snapshot |-> <<>>]

\* The manifest of the test, with some of its fields varied.
MfManifests ==
    {[NewManifest EXCEPT !.run_id = r, !.engine_version = "v1",
                         !.created_at = "2026-02-20T10:00:00Z", !.schema_version = "1.0",
                         !.dataset_hash = "sha256:abc", !.record_count = n,
                         !.replay_hash = "sha256:replay", !.signing_key_id = "k1",
                         !.final_state = f, !.total_runtime_sec = 42, !.event_count = 1000]
        : r \in {"r1", "r2"}, n \in {0, 100}, f \in {"VERIFIED", "ERROR"}}
MfKeys == {"cp", "cpu", "mem"}
MfValues == {"80", "90"}

MfOnly == UNCHANGED <<baseVars, sg, ac, pv, rp, ar>>

MfInit ==
    /\ BaseIdle
    /\ sg = SgIdle /\ ac = AcIdle /\ pv = PvIdle /\ rp = RpIdle /\ ar = ArIdle
    /\ \E m \in MfManifests : mf = [step |-> "built", m |-> m, last |-> "", json |-> <<>>]

\* m.guardrail_snapshot[k] = v
MfGuardrail ==
    /\ mf.step = "built"
    /\ \E k \in MfKeys, v \in MfValues :
         LET g == mf.m.guardrail_snapshot
         IN  mf' = [mf EXCEPT !.m.guardrail_snapshot =
                                  [x \in DOMAIN g \cup {k} |-> IF x = k THEN v ELSE g[x]],
                              !.last = k]
    /\ MfOnly

MfSerialize ==
    /\ mf.step = "built"
    /\ mf' = [mf EXCEPT !.step = "serialized", !.json = to_canonical_json(mf.m)]
    /\ MfOnly

MfNext == MfGuardrail \/ MfSerialize

SpecManifest == MfInit /\ [][MfNext]_vars

(***************************************************************************)
(* AsyncCollector::generate_batch (core/async_collector.cpp) over a        *)
(* MockProvider: the calling thread dispatches one std::async task per     *)
(* prompt, the tasks run and finish in any order, also while later ones    *)
(* are still being dispatched, and the join loop takes the futures in the  *)
(* order of the prompts, fut.get() blocking until its task has finished.   *)
(***************************************************************************)
MaxPrompts == 3

\* MockProvider::generate
generate(prompt) ==
    <<"{\"prompt\":\"", prompt, "\", \"completion\":\"Mock generation completed.\"}">>

\* A future whose get returns before the task has finished.
ready_at_once(fut) == TRUE

\* fut.get() returns once the task has stored its value.
ready(fut) == fut.done

AcPrompts == UNION {[1..n -> {"Prompt 0", "Prompt 1"}] : n \in 0..MaxPrompts}
Pending == <<"pending">>

AcOnly == UNCHANGED <<baseVars, sg, mf, pv, rp, ar>>

\* generate_batch(prompts) is called on a collector with or without a provider.
AcInit ==
    /\ BaseIdle
    /\ sg = SgIdle /\ mf = MfIdle /\ pv = PvIdle /\ rp = RpIdle /\ ar = ArIdle
    /\ \E p \in AcPrompts, has \in BOOLEAN :
         ac = [step |-> "called", provider_ |-> has, prompts |-> p, futures |-> <<>>,
               order |-> <<>>, results |-> <<>>, out |-> "none"]

\* if (!provider_) return {};
AcNoProvider ==
    /\ ac.step = "called" /\ ~ac.provider_
    /\ ac' = [ac EXCEPT !.step = "returned", !.out = <<>>]
    /\ AcOnly

\* futures.push_back(provider_->generate_async(prompt)), and the end of the loop
AcDispatch ==
    /\ ac.step = "called" /\ ac.provider_
    /\ IF Len(ac.futures) < Len(ac.prompts)
       THEN ac' = [ac EXCEPT !.futures = Append(@, [prompt |-> ac.prompts[Len(ac.futures) + 1],
                                                    done |-> FALSE, value |-> Pending])]
       ELSE ac' = [ac EXCEPT !.step = "join"]
    /\ AcOnly

\* One of the running tasks returns from MockProvider::generate.
AcFinish ==
    /\ \E i \in DOMAIN ac.futures :
         /\ ~ac.futures[i].done
         /\ ac' = [ac EXCEPT !.futures[i].done = TRUE,
                             !.futures[i].value = generate(ac.futures[i].prompt),
                             !.order = Append(@, i)]
    /\ AcOnly

\* results.push_back(fut.get()), and return results at the end of the loop
AcJoin ==
    /\ ac.step = "join"
    /\ IF Len(ac.results) < Len(ac.futures)
       THEN LET fut == ac.futures[Len(ac.results) + 1]
            IN  /\ ready(fut)
                /\ ac' = [ac EXCEPT !.results = Append(@, fut.value)]
       ELSE ac' = [ac EXCEPT !.step = "returned", !.out = ac.results]
    /\ AcOnly

AcNext == AcNoProvider \/ AcDispatch \/ AcFinish \/ AcJoin

SpecCollector == AcInit /\ [][AcNext]_vars

(***************************************************************************)
(* The engine under a driver that keeps calling tick (the loop of the      *)
(* engine thread, daemon.cpp 103-107), with governor waits and workers     *)
(* that come to an end: a tick that can begin does begin, a wait loop that *)
(* can take a pass does, and a running worker returns.                     *)
(***************************************************************************)
SpecLive ==
    Spec /\ WF_vars(TickBegin) /\ WF_vars(GovernStep) /\ WF_vars(Exec)

(***************************************************************************)
(* The providers of a process (core/provider.cpp) and the provider.generate*)
(* method of the daemon (Daemon::rpc_dispatch).  g_real_network_enabled is *)
(* one flag of the process; createProvider(config) copies the config's     *)
(* real_network_enabled into it and builds the provider from type, key and *)
(* model alone, so a provider keeps nothing of the setting it was created  *)
(* with (created_real remembers it for the properties).  Whether the build *)
(* has libcurl (HAVE_CURL) is fixed for a behaviour.                       *)
(***************************************************************************)
MaxProviders == 2

ProviderTypes == {"openai", "anthropic"}
\* The provider names a request may carry.
ProviderNames == {"openai", "gpt", "anthropic"}

parseProviderType(name) ==
    CASE name \in {"openai", "gpt"} -> "openai"
      [] name \in {"anthropic", "claude"} -> "anthropic"

\* AIApiProvider::httpPost: what a request of any provider comes to.
httpPost(g, have_curl) ==
    IF ~g THEN "disabled"
    ELSE IF have_curl THEN "real_request"
    ELSE "no_transport"

NoCall == [via |-> "none", created_real |-> FALSE, wants_real |-> FALSE,
           reused |-> FALSE, outcome |-> "none"]
NoProvider == [type |-> "none", created_real |-> FALSE]

PvOnly == UNCHANGED <<baseVars, sg, mf, ac, rp, ar>>

PvInit ==
    /\ BaseIdle
    /\ sg = SgIdle /\ mf = MfIdle /\ ac = AcIdle /\ rp = RpIdle /\ ar = ArIdle
    /\ \E have_curl \in BOOLEAN :
         pv = [HAVE_CURL |-> have_curl, g_real_network_enabled |-> FALSE,
               providers |-> <<>>, provider_ |-> NoProvider, last |-> NoCall]

\* createProvider(config)
PvCreate ==
    /\ Len(pv.providers) < MaxProviders
    /\ \E type \in ProviderTypes, real \in BOOLEAN :
         pv' = [pv EXCEPT !.g_real_network_enabled = real,
                          !.providers = Append(@, [type |-> type, created_real |-> real]),
                          !.last = NoCall]
    /\ PvOnly

\* enableRealNetwork(enabled)
PvEnable ==
    /\ \E enabled \in BOOLEAN :
         pv' = [pv EXCEPT !.g_real_network_enabled = enabled, !.last = NoCall]
    /\ PvOnly

\* generate on one of the providers created so far
PvGenerate ==
    /\ \E i \in DOMAIN pv.providers :
         pv' = [pv EXCEPT !.last =
                   [via |-> "direct", created_real |-> pv.providers[i].created_real,
                    wants_real |-> FALSE, reused |-> FALSE,
                    outcome |-> httpPost(pv.g_real_network_enabled, pv.HAVE_CURL)]]
    /\ PvOnly

\* Daemon::rpc_dispatch on a provider.generate request
PvRpc ==
    /\ \E name \in ProviderNames, wants_real \in BOOLEAN :
         IF ~pv.HAVE_CURL /\ wants_real
         THEN pv' = [pv EXCEPT !.last = [via |-> "rpc", created_real |-> FALSE,
                                         wants_real |-> wants_real, reused |-> FALSE,
                                         outcome |-> "E_TRANSPORT_UNAVAILABLE"]]
         ELSE LET fresh == pv.provider_ = NoProvider \/ pv.provider_.type # name
                  g == IF fresh THEN wants_real ELSE pv.g_real_network_enabled
                  p == IF fresh
                       THEN [type |-> parseProviderType(name), created_real |-> wants_real]
                       ELSE pv.provider_
              IN  pv' = [pv EXCEPT !.g_real_network_enabled = g,
                                   !.provider_ = p,
                                   !.last = [via |-> "rpc", created_real |-> p.created_real,
                                             wants_real |-> wants_real, reused |-> ~fresh,
                                             outcome |-> httpPost(g, pv.HAVE_CURL)]]
    /\ PvOnly

PvNext == PvCreate \/ PvEnable \/ PvGenerate \/ PvRpc

SpecProvider == PvInit /\ [][PvNext]_vars

(***************************************************************************)
(* One connection of the RPC server (RPCServer::handle_client).  A frame   *)
(* is a 4-byte big-endian length followed by that many bytes; the model    *)
(* keeps the length bytes and the number of payload bytes that follow      *)
(* them (fewer than announced when the client hangs up in mid-frame).  One *)
(* pass of the loop is one step: the reads, dispatch_ and the writes touch *)
(* nothing another thread shares but running_, which is read at the top of *)
(* the loop.  Writes to the client succeed.                                *)
(***************************************************************************)
kMaxFrame == 524288
MaxFrames == 2

store_be32(v) ==
    <<(v \div 16777216) % 256, (v \div 65536) % 256, (v \div 256) % 256, v % 256>>

load_be32(b) == b[1] * 16777216 + b[2] * 65536 + b[3] * 256 + b[4]

\* A length test that lets every frame through.
frame_ok_any(len) == TRUE

\* handle_client, line 223: the lengths that are not a protocol violation.
frame_ok(len) == ~(len = 0 \/ len > kMaxFrame)

\* The responses handle_client makes up itself, by kind and size in bytes.
NoDispatchResponse == [kind |-> "no_dispatch", size |-> 65]
InternalErrorResponse == [kind |-> "internal_error", size |-> 68]
TooLargeResponse == [kind |-> "too_large", size |-> 72]

\* What dispatch_ may do with a request: return a response of some size, or throw.
DispatchOutcomes ==
    {[kind |-> "result", size |-> n] : n \in {2, kMaxFrame, kMaxFrame + 1}}
    \cup {[kind |-> "throw", size |-> 0]}

\* handle_client, lines 233-244: the response to a request dispatch_ was called with.
response(has_dispatch, returned) ==
    LET resp == IF ~has_dispatch THEN NoDispatchResponse
                ELSE IF returned.kind = "throw" THEN InternalErrorResponse
                ELSE returned
    IN  IF resp.size > kMaxFrame THEN TooLargeResponse ELSE resp

\* The lengths a client announces, and whether the payload follows in full.
RpLengths == {0, 1, kMaxFrame, kMaxFrame + 1, 2147483647}
RpFrames ==
    {[lenb |-> store_be32(n), payload |-> n] : n \in RpLengths}
    \cup {[lenb |-> store_be32(2), payload |-> 1]}

RpOnly == UNCHANGED <<baseVars, sg, mf, ac, pv, ar>>

RpInit ==
    /\ BaseIdle
    /\ sg = SgIdle /\ mf = MfIdle /\ ac = AcIdle /\ pv = PvIdle /\ ar = ArIdle
    /\ \E has_dispatch \in BOOLEAN :
         rp = [running_ |-> TRUE, open |-> TRUE, dispatch_ |-> has_dispatch,
               inbox |-> <<>>, sent |-> 0, read |-> 0, dispatched |-> <<>>,
               outbox |-> <<>>]

\* The client writes one more frame to the socket.
RpSend ==
    /\ rp.sent < MaxFrames
    /\ \E f \in RpFrames :
         rp' = [rp EXCEPT !.sent = @ + 1,
                          !.inbox = Append(@, [id |-> rp.sent + 1, lenb |-> f.lenb,
                                               payload |-> f.payload])]
    /\ RpOnly

\* RPCServer::stop, from another thread
RpStop ==
    /\ rp.running_
    /\ rp' = [rp EXCEPT !.running_ = FALSE]
    /\ RpOnly

\* One pass of the loop of handle_client over the next frame in the socket.
RpHandle ==
    /\ rp.running_ /\ rp.open /\ rp.inbox # <<>>
    /\ LET f == Head(rp.inbox)
           len == load_be32(f.lenb)
           r == [rp EXCEPT !.inbox = Tail(@), !.read = @ + 1]
       IN  IF ~frame_ok(len) \/ f.payload < len
           THEN rp' = [r EXCEPT !.open = FALSE]
           ELSE \E o \in DispatchOutcomes :
                  LET resp == response(rp.dispatch_, o)
                  IN  rp' = [r EXCEPT
                               !.dispatched = IF rp.dispatch_ THEN Append(@, f.id) ELSE @,
                               !.outbox = Append(@, [for |-> f.id, kind |-> resp.kind,
                                                     lenb |-> store_be32(resp.size),
                                                     size |-> resp.size])]
    /\ RpOnly

\* The loop ends because the server was stopped, and the thread closes the socket.
RpClose ==
    /\ ~rp.running_ /\ rp.open
    /\ rp' = [rp EXCEPT !.open = FALSE]
    /\ RpOnly

RpNext == RpSend \/ RpStop \/ RpHandle \/ RpClose

SpecRpc == RpInit /\ [][RpNext]_vars

(***************************************************************************)
(* ArenaAllocator (heidi_cpp.cpp).  pos_, size_ and bytes are size_t:      *)
(* unsigned words, here of WordBits bits, whose sums wrap around.  A       *)
(* region is the memoryview allocate hands out: bytes bytes from offset    *)
(* pos_ of the buffer, whether or not the buffer reaches that far.         *)
(***************************************************************************)
WordBits == 3
MaxAllocs == 3

Word == 2 ^ WordBits
\* size_t addition
word_add(a, b) == (a + b) % Word

\* The sizes an arena is constructed with.
ArSizes == {4, Word - 2}

NoAlloc == [result |-> "none", pos_before |-> 0, bytes |-> 0]

\* ArenaAllocator::allocate(bytes) on an arena a
allocate(a, bytes) ==
    IF word_add(a.pos_, bytes) > a.size_
    THEN [a EXCEPT !.last = [result |-> "Arena overflow", pos_before |-> a.pos_,
                             bytes |-> bytes]]
    ELSE [a EXCEPT !.regions = Append(@, [start |-> a.pos_, len |-> bytes]),
                   !.pos_ = word_add(a.pos_, bytes),
                   !.last = [result |-> "ok", pos_before |-> a.pos_, bytes |-> bytes]]

\* ArenaAllocator::reset
reset(a) == [a EXCEPT !.pos_ = 0, !.regions = <<>>, !.last = NoAlloc]

ArOnly == UNCHANGED <<baseVars, sg, mf, ac, pv, rp>>

\* ArenaAllocator(size)
ArInit ==
    /\ BaseIdle
    /\ sg = SgIdle /\ mf = MfIdle /\ ac = AcIdle /\ pv = PvIdle /\ rp = RpIdle
    /\ \E size \in ArSizes :
         ar = [size_ |-> size, pos_ |-> 0, regions |-> <<>>, last |-> NoAlloc]

ArAllocate ==
    /\ Len(ar.regions) < MaxAllocs
    /\ \E bytes \in 0..(Word - 1) : ar' = allocate(ar, bytes)
    /\ ArOnly

ArReset ==
    /\ ar' = reset(ar)
    /\ ArOnly

ArNext == ArAllocate \/ ArReset

SpecArena == ArInit /\ [][ArNext]_vars

(***************************************************************************)
(* Properties of Core::tick.                                               *)
(***************************************************************************)
RequiredBranches == {"COLLECTING", "VALIDATING", "TESTING", "FINALIZING"}

\* The transitions the state machine description gives to tick.
TickTransitions ==
    {<<"COLLECTING", "VALIDATING">>,
     <<"VALIDATING", "TESTING">>, <<"VALIDATING", "FINALIZING">>,
     <<"VALIDATING", "IDLE">>,
     <<"TESTING", "FINALIZING">>, <<"TESTING", "IDLE">>,
     <<"FINALIZING", "EVALUATING">>,
     <<"EVALUATING", "COLLECTING">>, <<"EVALUATING", "IDLE">>}

\* A tick has returned and no other caller touched the engine meanwhile.
TickDone == op = "tick" /\ pc = "idle" /\ tick_clean

\* run_script failed in a way that is an error of the stage.
StageFailed == outcome \in {"exit_nonzero", "throws", "over_budget"}
StageSucceeded == outcome \in {"exit_zero", "mocked"}

\* C1: comparing the state before (branch) and after a tick, the state has
\* made at most one transition, one of those of the state machine or, from a
\* required stage that failed, the one to ERROR; the tick ran at most one
\* worker; while the tick is still in progress the state is the one it began in.
C1_TickOneTransition ==
    /\ (op = "tick" /\ tick_clean) => workers <= 1
    /\ (op = "tick" /\ pc # "idle" /\ tick_clean) => current_state_ = branch
    /\ TickDone =>
         \/ /\ current_state_ = branch
            /\ workers = 0
            /\ branch \in {"IDLE", "ERROR"} \/ stop_requested_
         \/ <<branch, current_state_>> \in TickTransitions
         \/ /\ branch \in RequiredBranches
            /\ StageFailed
            /\ current_state_ = "ERROR"

\* A tick took VALIDATING to TESTING with one worker run.
C1_Witness ==
    /\ TickDone /\ branch = "VALIDATING" /\ current_state_ = "TESTING"
    /\ workers = 1


\* The events the step appended to the journal of the operation in progress.
Appended ==
    IF Len(journal_') >= Len(journal_)
       /\ SubSeq(journal_', 1, Len(journal_)) = journal_
    THEN SubSeq(journal_', Len(journal_) + 1, Len(journal_'))
    ELSE journal_'

HasEvent(j, event_type) == \E i \in 1..Len(j) : j[i].event_type = event_type

\* The step in which Subprocess::execute returns and the tick ends.
ExecReturns == pc = "exec" /\ pc' = "idle"

C3_GateLeadsToTraining ==
    (TickDone /\ StageSucceeded) =>
        /\ (branch = "VALIDATING" /\ config_.run_unit_tests)
              => current_state_ = "TESTING"
        /\ (\/ branch = "VALIDATING" /\ ~config_.run_unit_tests
            \/ branch = "TESTING")
              => current_state_ = IF mode_ \in {"full", "real"}
                                  THEN "FINALIZING" ELSE "IDLE"

GatekeeperPasses(r) == inited /\ r.doctor_status = 0 /\ r.key /\ r.keystore

\* C5 (as claimed): start("real") reaches COLLECTING and journals
\* pipeline_start only if the governor is initialised, the integrity check
\* exits 0 and both secrets are present; if a check fails, a critical
\* gatekeeper_failed event is journaled, the state becomes ERROR, round and mode
\* keep their values, and later ticks run no worker.
C5_GatekeeperFailsClosed ==
    [][/\ (op' = "start" /\ req'.mode = "real" /\ ~stop_requested_)
          => IF GatekeeperPasses(req')
             THEN /\ current_state_' = "COLLECTING"
                  /\ HasEvent(journal_', "pipeline_start")
             ELSE /\ current_state_' = "ERROR"
                  /\ \E i \in 1..Len(journal_') :
                        /\ journal_'[i].event_type = "gatekeeper_failed"
                        /\ journal_'[i].level = "critical"
                  /\ ~HasEvent(journal_', "pipeline_start")
                  /\ mode_' = mode_ /\ current_round_' = current_round_
       /\ (current_state_ = "ERROR" /\ pc = "idle" /\ op' = "tick")
          => /\ pc' = "idle" /\ workers' = 0]_vars

(***************************************************************************)
(* Properties of the governor wait loop of Core::run_script.               *)
(***************************************************************************)
RetryHorizon == 8       \* retries looked ahead for the wait budget to run out

\* C7 (as claimed): the worker of a stage invocation is running only if the
\* governor's most recent decision in that invocation was StartNow.
C7_LaunchNeedsStartNow ==
    (op = "tick" /\ (pc = "exec" \/ workers > 0)) => lastDecision = "START_NOW"

\* C7 (amended): on an engine whose governor Core::init has set up, the worker
\* of a stage invocation is launched only if the governor's most recent
\* decision in that invocation was StartNow, and it is not launched while the
\* invocation is still in the wait loop.
C7_LaunchNeedsStartNowIfGoverned ==
    (inited /\ op = "tick") =>
        /\ (pc = "exec" \/ workers > 0) => lastDecision = "START_NOW"
        /\ pc = "govern" => workers = 0

\* The worker runs after the governor held the stage back and then let it go.
C7_Witness ==
    /\ inited /\ op = "tick" /\ pc = "exec" /\ journal_ # <<>>
    /\ journal_[Len(journal_)].event_type = "pipeline_throttled"
    /\ lastDecision = "START_NOW" /\ workers = 1

C10_BudgetExhaustedIsFatal ==
    (op = "tick" /\ pc = "idle" /\ outcome = "over_budget") =>
        /\ HasEvent(journal_, "pipeline_error")
        /\ workers = 0
        /\ current_state_ = "ERROR"

(***************************************************************************)
(* Properties of JournalWriter.                                            *)
(***************************************************************************)
\* The prev_hash field of a written line: what stands between the first
\* "prev_hash" key and the closing quote and brace.
prev_hash_of(line) ==
    LET p == CHOOSE i \in 1..Len(line) :
                 /\ line[i] = KeyPiece.prev_hash
                 /\ \A j \in 1..(i - 1) : line[j] # KeyPiece.prev_hash
    IN SubSeq(line, p + 1, Len(line) - 3)

\* C6: the journal file is a hash chain: the first record's prev_hash is the
\* seed hash, each later record's prev_hash is the SHA-256 of the bytes written
\* for the record before it, and current_hash() is the digest of the last
\* record written (the seed while nothing has been written).
C6_HashChain ==
    /\ \A i \in 1..Len(jw.file) :
          prev_hash_of(jw.file[i]) =
              IF i = 1 THEN jw.seed ELSE compute_sha256(jw.file[i - 1])
    /\ current_hash(jw) =
          IF jw.file = <<>> THEN jw.seed
          ELSE compute_sha256(jw.file[Len(jw.file)])

\* Three records have been written, the second after a redacted message.
C6_Witness ==
    /\ Len(jw.file) = 3
    /\ \E i \in 1..Len(jw.file[1]) : starts_with(jw.file[1], i, OPENAI_KEY)
    /\ prev_hash_of(jw.file[3]) = compute_sha256(jw.file[2])

(***************************************************************************)
(* Properties of ResourceGovernor::decide.                                 *)
(***************************************************************************)
\* The policy and the four calls of GovernorTest.HighWatermarks.
TestPolicy ==
    [cpu_high_watermark_pct |-> 80, mem_high_watermark_pct |-> 90,
     max_running_jobs |-> DefaultMaxRunningJobs, max_queue_depth |-> 1,
     cooldown_ms |-> 1000]

\* C8: precedence RunningLimit, CpuHigh, MemHigh, else StartNow; the retry
\* delay of a HoldQueue answer is the policy's cooldown; and the four answers
\* GovernorTest.HighWatermarks expects.
C8_DecidePrecedence ==
    gov.out.decision # "none" =>
        LET p == gov.policy
            cpu == gov.in[1]
            mem == gov.in[2]
            running == gov.in[3]
            queued == gov.in[4]
            o == gov.out
        IN /\ running > p.max_running_jobs
                => /\ o.reason = "RUNNING_LIMIT"
                   /\ o.decision = IF queued >= p.max_queue_depth
                                   THEN "REJECT_QUEUE_FULL" ELSE "HOLD_QUEUE"
           /\ (running <= p.max_running_jobs /\ cpu > p.cpu_high_watermark_pct)
                => (o.decision = "HOLD_QUEUE" /\ o.reason = "CPU_HIGH")
           /\ (running <= p.max_running_jobs /\ cpu <= p.cpu_high_watermark_pct
                  /\ mem > p.mem_high_watermark_pct)
                => (o.decision = "HOLD_QUEUE" /\ o.reason = "MEM_HIGH")
           /\ (running <= p.max_running_jobs /\ cpu <= p.cpu_high_watermark_pct
                  /\ mem <= p.mem_high_watermark_pct)
                => (o.decision = "START_NOW" /\ o.reason = "NONE")
           /\ o.decision = "HOLD_QUEUE" => o.retry_after_ms = p.cooldown_ms
           /\ p = TestPolicy =>
                /\ gov.in = <<50, 80, 1, 0>> => o.decision = "START_NOW"
                /\ gov.in = <<85, 80, 1, 0>>
                      => o = GovernorResult("HOLD_QUEUE", "CPU_HIGH", 1000)
                /\ gov.in = <<50, 95, 1, 0>>
                      => (o.decision = "HOLD_QUEUE" /\ o.reason = "MEM_HIGH")
                /\ gov.in = <<50, 50, 11, 0>>
                      => (o.decision = "HOLD_QUEUE" /\ o.reason = "RUNNING_LIMIT")

\* CPU and memory are both over their watermarks: CpuHigh takes precedence.
C8_Witness ==
    /\ gov.out.decision = "HOLD_QUEUE" /\ gov.out.reason = "CPU_HIGH"
    /\ gov.in[2] > gov.policy.mem_high_watermark_pct
    /\ gov.out.retry_after_ms = 1000

(***************************************************************************)
(* Properties of shutdown, of the steady states and of the round counter.  *)
(***************************************************************************)
\* A step of the tick in progress (not a call of another thread falling
\* into it).
TickStep ==
    pc # "idle" /\ <<pc, holds, workers, outcome>>' # <<pc, holds, workers, outcome>>

\* C11 (as claimed): once shutdown() has completed (the stop flag is set and
\* the state is IDLE), a stage that was in flight sees the flag and neither
\* advances the state to a later stage nor sets ERROR: every step the tick
\* takes with the flag set leaves the state as it found it.
C11_ShutdownSticks ==
    [][(stop_requested_ /\ TickStep) => current_state_' = current_state_]_vars

\* A tick call begins.
TickCalled == pc = "idle" /\ op' = "tick"

\* C12: in IDLE or ERROR a call of tick returns at once, launches no worker,
\* appends nothing to the journal, and leaves state, round, mode and the
\* persisted status untouched.
C12_SteadyStateTickNoOp ==
    [][(TickCalled /\ current_state_ \in {"IDLE", "ERROR"}) =>
          /\ pc' = "idle" /\ workers' = 0
          /\ journal_' = <<>>
          /\ UNCHANGED <<current_state_, current_round_, mode_, status_,
                         stop_requested_>>]_vars

\* A no-op tick has been taken in ERROR, after a failed stage, and in IDLE at
\* the end of a run.
C12_Witness ==
    /\ TickDone /\ branch = "ERROR" /\ current_state_ = "ERROR"
    /\ inited /\ journal_ = <<>> /\ workers = 0 /\ current_round_ >= 1

\* A start call passed the gatekeeper and set the round.
StartSucceeded ==
    /\ pc = "idle" /\ op' = "start"
    /\ ~stop_requested_
    /\ req'.mode = "real" => GatekeeperPasses(req')

\* C13 (as claimed): the round is 1 right after a successful start; no call
\* of start, tick, shutdown or action_train_now ever decreases it; and it
\* never exceeds the configured round limit.
C13_RoundMonotone ==
    [][/\ StartSucceeded => current_round_' = 1
       /\ current_round_' >= current_round_
       /\ current_round_' <= config_'.rounds]_vars

\* C13 (amended): the round is 1 right after a successful start; every other
\* step leaves it or adds one, so it never decreases within a run (a later
\* successful start begins a new run at round 1); and it is incremented only
\* while it is below the configured round limit.
C13_RoundMonotoneWithinRun ==
    [][/\ StartSucceeded => current_round_' = 1
       /\ ~StartSucceeded => current_round_' \in {current_round_, current_round_ + 1}
       /\ current_round_' = current_round_ + 1 =>
             (~StartSucceeded => current_round_' <= config_.rounds)]_vars

\* A run has reached its second round, at the round limit.
C13_Witness ==
    /\ inited /\ current_round_ = 2 /\ config_.rounds = 2
    /\ current_state_ = "COLLECTING" /\ TickDone /\ branch = "EVALUATING"


(***************************************************************************)
(* A collect-mode run end to end.                                          *)
(***************************************************************************)
CollectPath == <<"IDLE", "COLLECTING", "VALIDATING", "IDLE">>

SpDone == sp.pc = "done"
Sigs == [k \in 1..Len(sp.sent) |-> sp.sent[k].sig]

\* C15 (as claimed): on a timeout SIGTERM is sent first; SIGKILL is sent only
\* after it, only when the whole grace period has passed, and only to a child
\* that is still alive at that moment; and execute returns only when the
\* child has been reaped.
C15_EscalationOrder ==
    sp.timed_out =>
        /\ Sigs \in {<<>>, <<"SIGTERM">>, <<"SIGTERM", "SIGKILL">>}
        /\ \A k \in 1..Len(sp.sent) :
              sp.sent[k].sig = "SIGKILL" =>
                  sp.sent[k].polls = GracePolls /\ sp.sent[k].alive
        /\ SpDone => sp.child \in {"reaped", "gone"}

\* C15 (amended): on a timeout SIGTERM is sent first; SIGKILL is sent only
\* after it and only after all the polls of the grace period found the
\* child not exited; execute returns only when the child has been reaped,
\* with the SIGKILL note only if SIGKILL was sent.
C15_EscalationOrderAsPolled ==
    sp.timed_out =>
        /\ Sigs \in {<<>>, <<"SIGTERM">>, <<"SIGTERM", "SIGKILL">>}
        /\ \A k \in 1..Len(sp.sent) :
              sp.sent[k].sig = "SIGKILL" => sp.sent[k].polls = GracePolls
        /\ sp.pc \in {"grace", "wait_kill"} => Sigs # <<>>
        /\ sp.pc = "wait_kill" => Len(Sigs) = 2
        /\ SpDone =>
              /\ sp.child \in {"reaped", "gone"}
              /\ Sigs # <<>>
              /\ (NoteKill = sp.output[Len(sp.output)]) = (Len(Sigs) = 2)

\* A timed-out call went through SIGTERM, the whole grace period and a
\* SIGKILL that ended the worker.
C15_Witness ==
    /\ SpDone /\ sp.timed_out /\ sp.child = "reaped"
    /\ Len(sp.sent) = 2 /\ sp.sent[2].delivered /\ sp.i = GracePolls

\* C16 (as claimed): a call that ends because the timeout fired has appended
\* a diagnostic note and returns a code other than 0.
C16_TimeoutNeverSucceeds ==
    (SpDone /\ sp.timed_out) =>
        /\ sp.output # <<>>
        /\ sp.output[Len(sp.output)] \in {NoteTerm, NoteReaped, NoteKill}
        /\ sp.result.kind = "return" /\ sp.result.code # 0

\* C17 (as claimed): with a timeout, execute never sits in a blocking wait
\* for a worker that will not end: one that never exits of its own accord
\* and that no signal still on its way will end.
C17_NeverBlocked ==
    ~ /\ sp.timeout_seconds > 0
      /\ sp.pc \in {"wait", "wait_kill"}
      /\ sp.child = "running" /\ sp.hangs
      /\ ~(sp.term_pending /\ sp.on_term # "ignore")

\* C18 (as claimed): the worker leads a process group of its own made by
\* execute, so every signal execute sends while the worker is alive reaches
\* it.
C18_SignalsReachWorker ==
    \A k \in 1..Len(sp.sent) : sp.sent[k].alive => sp.sent[k].delivered

\* C19 (as claimed): when the worker could not be started (fork or exec
\* failed), what execute hands back differs from every result of a worker
\* that ran and exited, and from a timeout.
C19_SpawnFailureDistinct ==
    (SpDone /\ sp.spawn \in {"fork_fail", "exec_fail"}) =>
        /\ ~sp.timed_out
        /\ \A code \in WorkerExitCodes : sp.result # Returned(code)


(***************************************************************************)
(* The schema lock.                                                        *)
(***************************************************************************)
\* The serialisation a written line holds: the line without its newline, its
\* prev_hash value (a hex digest, which holds no comma, quote or letter past
\* f) taken as one token.
json_of(line) ==
    LET p == CHOOSE i \in 1..Len(line) :
                 /\ line[i] = KeyPiece.prev_hash
                 /\ \A j \in 1..(i - 1) : line[j] # KeyPiece.prev_hash
    IN SubSeq(line, 1, p) \o <<"digest", "\"", "}">>

\* C20 (as claimed): an event whose serialisation violates the schema lock is
\* rejected before anything is written, so every record in the journal file
\* passes validate_strict.
C20_RejectedBeforeWritten ==
    \A i \in 1..Len(jw.file) : validate_strict(json_of(jw.file[i])) = "ok"

(***************************************************************************)
(* Redaction.                                                              *)
(***************************************************************************)
SecretShapes ==
    {"g[h]p_[a-zA-Z0-9]{36}", "s[k]-[a-zA-Z0-9]{20,}", "Bearer\\s+[\\w\\-]{20,}"}
has_secret(s) ==
    \E i \in 1..Len(s), re \in SecretShapes : regex_match(re, s, i) > 0
\* The characters the bodies of the three secrets are made of; no other piece
\* of a message holds one.
SecretBody == {"1", "2", "3"}
DifferentShapes(atoms) ==
    \A i, j \in DOMAIN atoms :
        (i # j /\ atoms[i] \in SecretAtoms) => atoms[i] # atoms[j]

\* C23 (as claimed): whatever the message, the line write stores holds no
\* substring of a secret shape, and when the message holds several secrets of
\* different shapes, in any order, nothing of any of them is left in the line.
C23_NoSecretStored ==
    sn.via = "write" =>
        LET line == sn.w.file[1]
        IN /\ ~has_secret(line)
           /\ DifferentShapes(sn.atoms) =>
                  \A i \in 1..Len(line) : line[i] \notin SecretBody

\* C24 (as claimed): a message sanitized by run_script and again by write is
\* stored exactly as the same message sanitized by write alone.
C24_SanitizeIdempotent ==
    sn.via = "run_script" =>
        LET m == err_msg("scripts/02_validate_clean.py", "1", text_of(sn.atoms))
        IN sn.w.file = write(JwIdle, ErrorEvent(m), TRUE).file

(***************************************************************************)
(* The schema lock as a validator.                                         *)
(***************************************************************************)
\* What a shape is by construction (a ts dropped and a ts added is a ts
\* moved).
LacksField(shape) == shape.drop = "ts" /\ shape.add # "second_ts"
HasSurplusField(shape) ==
    \/ shape.add = "extra_after_space"
    \/ shape.add = "second_ts" /\ shape.drop = "none"
WrongVersion(shape) == shape.version # SCHEMA_VERSION
Oversized(shape) == shape.message = <<BigWord>>
HasNanToken(shape) == shape.round = "nan"
WellFormed(shape) ==
    ~(LacksField(shape) \/ HasSurplusField(shape) \/ WrongVersion(shape)
        \/ Oversized(shape) \/ HasNanToken(shape))

\* C21 (as claimed): validate_strict raises a schema-lock error for every
\* line that lacks a required field, has a field twice or a further top-level
\* field, has another event_version, is over the size cap, or holds a nan
\* token.
C21_RejectsEveryInvalidLine ==
    (vl.out # "none" /\ ~WellFormed(vl.shape)) => vl.out # "ok"

\* C22 (as claimed): validate_strict accepts every well-formed line with the
\* 12 fields, the supported version and a size within the cap, whatever the
\* values are: level "info" and maps with two entries included.
C22_AcceptsEveryWellFormedLine ==
    (vl.out # "none" /\ WellFormed(vl.shape)) => vl.out = "ok"

(***************************************************************************)
(* write under two callers.                                                *)
(***************************************************************************)
CwQuiet == \A t \in Threads : cw.th[t].pc = "idle"

\* C25 (as claimed): with two threads calling write on one journal, once no
\* call is in progress the file is a valid hash chain: each record's prev_hash
\* is the digest of the record before it (the seed for the first), no two
\* records carry the same prev_hash, and last_hash_ is the digest of the last
\* line of the file.
C25_WriteIsCriticalSection ==
    CwQuiet =>
        LET file == cw.w.file
        IN /\ \A i \in 1..Len(file) :
                  prev_hash_of(file[i]) =
                      IF i = 1 THEN cw.w.seed ELSE compute_sha256(file[i - 1])
           /\ \A i, j \in 1..Len(file) :
                  i # j => prev_hash_of(file[i]) # prev_hash_of(file[j])
           /\ cw.w.last_hash_ =
                  IF file = <<>> THEN cw.w.seed
                  ELSE compute_sha256(file[Len(file)])

(***************************************************************************)
(* Journal and status document across state changes.                       *)
(***************************************************************************)
\* A step of tick: its first one, or one of those that follow.
TickTakesStep == TickCalled \/ TickStep

\* C26 (as claimed): on an engine Core::init has set up, every step of start,
\* tick, shutdown or action_train_now that changes the state belongs to an
\* operation that has appended at least one event to the journal: the step
\* itself appends one, or it is a step of a tick that has appended one.
C26_EveryTransitionJournaled ==
    [][(inited /\ current_state_' # current_state_) =>
          \/ Appended # <<>>
          \/ TickTakesStep /\ journal_' # <<>>]_vars

\* The document set_state persists for the state and round the step leaves.
StatusReflectsState ==
    /\ status_'.status = (IF current_state_' = "IDLE" THEN "completed" ELSE "running")
    /\ status_'.current_round = current_round_'

TrainNowStep ==
    \/ pc = "idle" /\ op' = "train_now"
    \/ /\ pc # "idle"
       /\ UNCHANGED <<pc, wait_ms, holds, op, branch, workers, outcome,
                      lastDecision, req, stops>>

\* C29: action_train_now moves the state to FINALIZING when the mode is
\* collect and the state is IDLE, leaving round, mode and stop flag alone;
\* in every other mode or state it changes neither state, round, mode, stop
\* flag nor persisted status and appends nothing to the journal.
C29_TrainNowFrame ==
    [][TrainNowStep =>
          IF mode_ = "collect" /\ current_state_ = "IDLE"
          THEN /\ current_state_' = "FINALIZING"
               /\ UNCHANGED <<current_round_, mode_, stop_requested_>>
          ELSE /\ UNCHANGED <<current_state_, current_round_, mode_,
                              stop_requested_, status_>>
               /\ Appended = <<>>]_vars

\* action_train_now has moved a collect-mode engine from IDLE to FINALIZING.
C29_Witness ==
    /\ op = "train_now" /\ pc = "idle"
    /\ mode_ = "collect" /\ current_state_ = "FINALIZING"

(***************************************************************************)
(* StatusWriter::write under two callers.                                  *)
(***************************************************************************)
\* What a reader of status_path_ gets now: nothing while there is no file.
status_file == IF sw.status_path = NoInode THEN <<>> ELSE sw.inode[sw.status_path]

\* C28 (as claimed): at every instant the file at the status path, once there
\* is one, holds a complete document handed to write, never a partial or
\* mixed one, also when two threads persist status at the same time.
C28_AtomicStatus ==
    sw.status_path # NoInode => status_file \in {SwDoc(t) : t \in Threads}

(***************************************************************************)
(* The run manifest.                                                       *)
(***************************************************************************)
\* The step in which tick ends the last round: pipeline_complete is journaled
\* and the state becomes IDLE.
PipelineCompletes ==
    /\ ExecReturns /\ branch = "EVALUATING"
    /\ current_state_' = "IDLE" /\ HasEvent(Appended, "pipeline_complete")

\* C30 (as claimed): a run manifest is produced exactly in the step that
\* completes a full or real run, one per such step, and in no other step: not
\* by a run that ends in ERROR, is shut down, or is in collect mode.
C30_ManifestAtCompletion ==
    [][IF PipelineCompletes /\ mode_ \in {"full", "real"}
       THEN manifests' = manifests + 1
       ELSE manifests' = manifests]_vars

(***************************************************************************)
(* Properties of SignatureUtil.                                            *)
(***************************************************************************)

FieldOpeners ==
    [created_at |-> "\"created_at\":\"", dataset_hash |-> "\"dataset_hash\":\"",
     engine_version |-> "\"engine_version\":\"", event_count |-> "\"event_count\":",
     final_state |-> "\"final_state\":\"", guardrail_snapshot |-> "\"guardrail_snapshot\":{",
     record_count |-> "\"record_count\":", replay_hash |-> "\"replay_hash\":\"",
     run_id |-> "\"run_id\":\"", schema_version |-> "\"schema_version\":\"",
     signing_key_id |-> "\"signing_key_id\":\"", total_runtime_sec |-> "\"total_runtime_sec\":"]
ManifestFields == DOMAIN NewManifest

\* The top-level fields of a document, in the order they appear.
FieldAt(json, i) == CHOOSE f \in ManifestFields : FieldOpeners[f] = json[i]
FieldPositions(json) ==
    {i \in DOMAIN json : \E f \in ManifestFields : FieldOpeners[f] = json[i]}
\* The keys of the snapshot object of a document, by position.
SnapshotKeyPositions(json) ==
    {i \in DOMAIN json : i > 1 /\ i < Len(json) /\ json[i - 1] = "\"" /\ json[i + 1] = "\":\""}

\* C32: the document holds exactly the twelve manifest fields, each once, in
\* ascending alphabetical order of name, and the entries of
\* guardrail_snapshot, each once, in ascending order of key; the document
\* is a function of the field values alone.
C32_CanonicalOrder ==
    mf.step = "serialized" =>
        LET json == mf.json
            fp == FieldPositions(json)
            kp == SnapshotKeyPositions(json)
        IN  /\ Cardinality(ManifestFields) = 12
            /\ Cardinality(fp) = 12
            /\ {FieldAt(json, i) : i \in fp} = ManifestFields
            /\ \A i, j \in fp : i < j => string_less(FieldAt(json, i), FieldAt(json, j))
            /\ {json[i] : i \in kp} = DOMAIN mf.m.guardrail_snapshot
            /\ Cardinality(kp) = Cardinality(DOMAIN mf.m.guardrail_snapshot)
            /\ \A i, j \in kp : i < j => string_less(json[i], json[j])
            /\ \A i \in kp : json[i + 2] = mf.m.guardrail_snapshot[json[i]]
            /\ json = to_canonical_json(mf.m)

\* A manifest whose snapshot entries were last inserted out of key order is serialized.
C32_Witness ==
    /\ mf.step = "serialized"
    /\ DOMAIN mf.m.guardrail_snapshot = MfKeys
    /\ mf.last = "cp"

(***************************************************************************)
(* Properties of the engine under the threads of the daemon.               *)
(***************************************************************************)

\* C33 (as claimed): the engine is driven by one thread of control: while a
\* tick is in progress every step taken on the engine is a step of that
\* tick, never a step of start, shutdown or action_train_now.
C33_SingleThreadOfControl ==
    [][pc # "idle" => TickStep]_vars

(***************************************************************************)
(* Properties of AsyncCollector::generate_batch.                           *)
(***************************************************************************)
\* What the caller holds is one result per prompt, result i for prompt i,
\* and every request has completed.
AllResults ==
    /\ Len(ac.out) = Len(ac.prompts)
    /\ \A i \in DOMAIN ac.prompts : ac.out[i] = generate(ac.prompts[i])
    /\ Len(ac.futures) = Len(ac.prompts)
    /\ \A i \in DOMAIN ac.futures : ac.futures[i].done

\* C34 (as claimed): the caller holds nothing until generate_batch returns,
\* and what it returns is one result per prompt, in the order of the
\* prompts, after every request has completed.
C34_AllResultsInOrder ==
    /\ ac.step \in {"called", "join"} => ac.out = "none"
    /\ ac.step = "returned" => AllResults

\* C34 (corrected): the same for a collector that has a provider; a collector
\* without one returns an empty vector at once, whatever the prompts.
C34_AllResultsInOrderWithProvider ==
    /\ ac.step \in {"called", "join"} => ac.out = "none"
    /\ (ac.step = "returned" /\ ac.provider_) => AllResults
    /\ (ac.step = "returned" /\ ~ac.provider_) => (ac.out = <<>> /\ ac.futures = <<>>)

\* A full batch has returned whose last request finished first.
C34_Witness ==
    /\ ac.step = "returned" /\ ac.provider_
    /\ Len(ac.prompts) = MaxPrompts
    /\ ac.order[1] = MaxPrompts

\* A call of start begins (start is one step: the daemon calls it before it
\* creates its threads).
StartCalled == pc = "idle" /\ op' = "start"

\* C36: once shutdown has set the stop flag no step clears it; a start
\* called with the flag set changes neither state, round, mode nor the
\* persisted status and journals nothing, pipeline_start included; and a
\* tick called with the flag set returns at once without running a worker.
C36_StopIsFinal ==
    [][stop_requested_ =>
          /\ stop_requested_'
          /\ StartCalled =>
                /\ UNCHANGED <<current_state_, current_round_, mode_, status_>>
                /\ ~HasEvent(journal_', "pipeline_start")
                /\ journal_' = <<>>
          /\ TickCalled => (pc' = "idle" /\ workers' = 0)]_vars

\* After a shutdown that fell into a tick, and left the engine outside IDLE
\* and ERROR when the tick went on, a start has been called that the
\* gatekeeper would have let through.
C36_Witness ==
    /\ stop_requested_ /\ pc = "idle" /\ op = "start"
    /\ req.mode = "full"
    /\ current_state_ \notin {"IDLE", "ERROR"}

\* A call from outside the tick loop.
ExternalCall == CoreInit \/ Start \/ Shutdown \/ ActionTrainNow

\* C35 (as claimed): if the calls of start, shutdown and action_train_now
\* come to an end, the engine eventually is in IDLE or ERROR and stays there.
C35_EventuallySettles ==
    ([]<><<ExternalCall>>_vars) \/ <>[](current_state_ \in {"IDLE", "ERROR"})

(***************************************************************************)
(* Properties of the providers.                                            *)
(***************************************************************************)

\* C37 (as claimed): a request on a provider created with
\* real_network_enabled = false never becomes a real network request,
\* whatever was created or enabled before or after.
C37_FailClosedPerProvider ==
    (pv.last.via = "direct" /\ ~pv.last.created_real) =>
        pv.last.outcome # "real_request"

\* C38 (as claimed): a provider.generate request whose real_network_enabled
\* is false or absent never makes a real network call, also when the
\* daemon reuses the provider an earlier request created.
C38_RpcFailClosed ==
    (pv.last.via = "rpc" /\ ~pv.last.wants_real) =>
        pv.last.outcome # "real_request"

(***************************************************************************)
(* Properties of the RPC connection.                                       *)
(***************************************************************************)
\* The frame a pass of the loop takes, the length the client announced in
\* it, and what the pass added to the responses and to the dispatched requests.
RpPass == rp'.read = rp.read + 1
RpTaken == Head(rp.inbox)
RpAnnounced == CHOOSE n \in RpLengths \cup {2} : store_be32(n) = RpTaken.lenb
RpNewResponses == SubSeq(rp'.outbox, Len(rp.outbox) + 1, Len(rp'.outbox))
RpNewDispatches == SubSeq(rp'.dispatched, Len(rp.dispatched) + 1, Len(rp'.dispatched))

Overlap(r, s) == r.start < s.start + s.len /\ s.start < r.start + r.len

\* C40 (as claimed): every region handed out since the last reset lies
\* inside the buffer and no two of them share a byte; and a call whose
\* bytes do not fit behind pos_ fails with Arena overflow and leaves pos_
\* where it was, also when pos_ + bytes wraps around.
C40_ArenaBounds ==
    /\ \A i \in DOMAIN ar.regions :
          ar.regions[i].start + ar.regions[i].len <= ar.size_
    /\ \A i, j \in DOMAIN ar.regions :
          i # j => ~Overlap(ar.regions[i], ar.regions[j])
    /\ (ar.last.result # "none" /\ ar.last.pos_before + ar.last.bytes > ar.size_) =>
          (ar.last.result = "Arena overflow" /\ ar.pos_ = ar.last.pos_before)


====
